---- MODULE Spec2Model ----
(***************************************************************************)
(* Model of the plan scheduler of rtl_agent_system:                        *)
(*   core/base.py        ExecutionPlan.get_next_tasks, Task, AnalysisResult *)
(*   agents/supervisor.py DynamicRouter (register_agent, route,            *)
(*                        execute_plan, _execute_task) and the aggregation  *)
(*                        of SupervisorAgent.process                        *)
(*   analysis/log_analyzer.py FeedbackLoop (run, get_history)              *)
(* One run of DynamicRouter.execute_plan over one ExecutionPlan is a       *)
(* coroutine whose only suspension point is the asyncio.gather of a        *)
(* frontier; the workers of a frontier are coroutines that interleave.     *)
(***************************************************************************)
EXTENDS Integers, Sequences, FiniteSets, TLC

(* ---------------------------------------------------------------------- *)
(* Bounds of the model                                                     *)
(* ---------------------------------------------------------------------- *)

\* largest number of tasks of a plan; task ids are 1..n in task-list order
MaxTasks == 3

\* largest number of prerequisite entries of a plan, over all its tasks
MaxEdges == 2

\* largest number of tasks of a plan whose type has no registered worker
MaxUnrouted == 1

(* ---------------------------------------------------------------------- *)
(* Data model (core/base.py)                                               *)
(* ---------------------------------------------------------------------- *)

\* the members of TaskType that the modelled plans use
TaskType == {"timing_analysis", "debug"}

\* TaskStatus
PENDING == "pending"

IN_PROGRESS == "in_progress"

COMPLETED == "completed"

FAILED == "failed"

NEEDS_REVIEW == "needs_review"

TaskStatus == {PENDING, IN_PROGRESS, COMPLETED, FAILED, NEEDS_REVIEW}

\* AnalysisResult(success, summary, details, errors): the fields the scheduler
\* and the aggregation read or write; warnings and recommendations default to
\* empty lists.  A text is a record [text, arg], arg being the value that an
\* f-string interpolates ("" when there is none).
AnalysisResult(success, summary, errors) ==
    [success |-> success, summary |-> summary, errors |-> errors,
     warnings |-> << >>, recommendations |-> << >>]

Text(text, arg) == [text |-> text, arg |-> arg]

\* what a registered worker's process(task) may do: return a result with
\* success=True, return one with success=False, or raise an Exception
WorkerReturns ==
    { AnalysisResult(TRUE, Text("ok", ""), << >>),
      [AnalysisResult(FALSE, Text("worker reported failure", ""),
                      << Text("violation found", "") >>)
         EXCEPT !.warnings = << Text("setup slack is small", ""),
                                Text("hold slack is small", "") >>,
                !.recommendations = << Text("relax the constraint", "") >>] }

WorkerFaults == {"boom"}

WorkerOutcomes ==
    { [kind |-> "return", value |-> r] : r \in WorkerReturns } \cup
    { [kind |-> "raise", value |-> Text(f, "")] : f \in WorkerFaults }

(* ---------------------------------------------------------------------- *)
(* State                                                                   *)
(* ---------------------------------------------------------------------- *)

VARIABLES
    plan,            \* the ExecutionPlan: tasks (ids in list order), task_type, dependencies
    agent_registry,  \* DynamicRouter.agent_registry: TaskType -> Agent, partial
    status,          \* Task.status of every task of the plan
    completed,       \* execute_plan: completed
    results,         \* execute_plan: results
    next_tasks,      \* execute_plan: next_tasks of the current round
    coro,            \* the _execute_task coroutine of each position of next_tasks
    pc,              \* execute_plan: "loop" (line 353), "gather" (line 362), "done" (returned)
    returned,        \* the value execute_plan returned
    exitAt,          \* how the while loop was left: "while" (line 353) or "break" (line 359)
    frontiers,       \* the next_tasks lists handed to asyncio.gather so far, in order
    executed,        \* the task whose result sits at each position of results
    finished         \* the tasks of the gather in progress whose coroutine has ended, in the order they ended

\* one FeedbackLoop instance, the runs made on it, and what it runs against
VARIABLES
    max_iterations,     \* FeedbackLoop.max_iterations
    iteration_history,  \* FeedbackLoop.iteration_history; 'result' holds a reference
    objects,            \* the AnalysisResult objects created so far, by reference
    fb_pc,              \* run: "idle", "process" (line 422), "fix" (line 442), "returned", "raised"
    iteration,          \* run: iteration
    current_task,       \* run: current_task (a task id)
    fb_result,          \* run: result, a reference (0 while unbound)
    fb_outcome,         \* what run gave its caller: a returned reference or a raised exception
    fb_env,             \* the worker and the repair step: what their k-th call of a run does
    fb_trace            \* of the current run: its number, the calls made, the tasks handed to the worker, the worker calls of all runs, the exit taken

\* the calls made on a DynamicRouter's registry, on a SupervisorAgent's parser
\* and planner, and on the record form of the data model
VARIABLES
    registered,   \* the register_agent calls made so far, in order
    routed,       \* the route calls made so far, each with what it gave
    parsed,       \* the parse_user_command calls made so far, each with the Task it returned
    plans,        \* the create_execution_plan calls made so far, each with the plan it returned
    stored        \* the objects turned into records so far, each with the record and what it reads back as

\* one ParallelExecutor and the execute_batch call made on it
VARIABLES
    max_concurrent,     \* ParallelExecutor.max_concurrent
    semaphore,          \* the counter of ParallelExecutor.semaphore
    jobs,               \* execute_batch: jobs, each with what executor.execute does for it
    batch_tasks,        \* the _execute_with_semaphore coroutine of each job
    batch_pc,           \* execute_batch: "idle", "gather" (line 315), "returned"
    processed_results   \* the list execute_batch returned

svars == << plan, agent_registry, status, completed, results, next_tasks, coro,
            pc, returned, exitAt, frontiers, executed, finished >>

fvars == << max_iterations, iteration_history, objects, fb_pc, iteration,
            current_task, fb_result, fb_outcome, fb_env, fb_trace >>

bvars == << max_concurrent, semaphore, jobs, batch_tasks, batch_pc, processed_results >>

xvars == << registered, routed, parsed, plans, stored, bvars >>

vars == << svars, fvars, xvars >>

(* ---------------------------------------------------------------------- *)
(* Helpers                                                                 *)
(* ---------------------------------------------------------------------- *)

Range(s) == { s[i] : i \in 1..Len(s) }

\* the ids of plan.tasks
TaskIds(p) == Range(p.tasks)

\* mutant of DepsOf: a task without entry counts as waiting for an unknown task
DepsOfNoDefault(p, t) == IF t \in DOMAIN p.dependencies THEN p.dependencies[t] ELSE {0}

\* self.dependencies.get(task.task_id, [])
DepsOf(p, t) == IF t \in DOMAIN p.dependencies THEN p.dependencies[t] ELSE {}

\* mutant of IsCompleted: completed tasks are not skipped
IsCompletedNever(t, done) == FALSE

\* if task.task_id in completed_task_ids: continue
IsCompleted(t, done) == t \in done

\* mutant of Ready: any(...) in place of all(...)
ReadyAny(p, t, done) == DepsOf(p, t) = {} \/ DepsOf(p, t) \cap done # {}

\* all(dep in completed_task_ids for dep in deps)
Ready(p, t, done) == DepsOf(p, t) \subseteq done

\* the for loop of get_next_tasks over the task list s, keeping list order
RECURSIVE SelectInOrder(_, _, _)
SelectInOrder(p, s, done) ==
    IF s = << >> THEN << >>
    ELSE LET t == Head(s)
             rest == SelectInOrder(p, Tail(s), done)
         IN  IF IsCompleted(t, done) THEN rest
             ELSE IF Ready(p, t, done) THEN << t >> \o rest
             ELSE rest

\* ExecutionPlan.get_next_tasks(completed_task_ids)
get_next_tasks(p, completed_task_ids) == SelectInOrder(p, p.tasks, completed_task_ids)

\* mutant of route: the lookup result is returned unchecked
routeUnchecked(reg, ttype) ==
    [kind |-> "return", value |-> IF ttype \in DOMAIN reg THEN reg[ttype] ELSE "None"]

\* DynamicRouter.route: the agent, or the ValueError it raises
route(reg, ttype) ==
    IF ttype \in DOMAIN reg
    THEN [kind |-> "return", value |-> reg[ttype]]
    ELSE [kind |-> "raise", value |-> Text("No agent registered for task type: ", ttype)]

\* mutant of ExceptResult: the description of the fault is dropped
ExceptResultNoErrors(e) ==
    AnalysisResult(FALSE, Text("Execution failed", ""), << >>)

\* the except branch of _execute_task: str(e) into summary and errors
ExceptResult(e) ==
    AnalysisResult(FALSE, Text("Execution failed: ", e), << e >>)

\* _execute_task: what its future holds once route or the worker has returned
\* or raised (every Exception is caught, so it always returns a result)
ExecuteTask(outcome) ==
    [kind |-> "return",
     value |-> IF outcome.kind = "raise" THEN ExceptResult(outcome.value) ELSE outcome.value]

\* the isinstance(result, Exception) branch of execute_plan (lines 368-374)
GatherResult(tr) ==
    IF tr.kind = "raise"
    THEN AnalysisResult(FALSE, Text("Task failed: ", tr.value), << tr.value >>)
    ELSE tr.value

\* mutant of StatusOf: every executed task counts as completed
StatusOfAlwaysCompleted(result) == COMPLETED

\* TaskStatus.COMPLETED if result.success else TaskStatus.FAILED
StatusOf(result) == IF result.success THEN COMPLETED ELSE FAILED

\* mutant of CompletedAdd: only a successful task counts as completed
CompletedAddIfSuccess(done, t, result) == IF result.success THEN done \cup {t} ELSE done

\* completed.add(task.task_id)
CompletedAdd(done, t, result) == done \cup {t}

\* mutant of LoopCondition: the loop stops one task short
LoopConditionOffByOne(done, p) == Cardinality(done) < Len(p.tasks) - 1

\* while len(completed) < len(plan.tasks)
LoopCondition(done, p) == Cardinality(done) < Len(p.tasks)

\* a coroutine of gather: not yet run, inside agent.process, or finished with
\* the value (or exception) its future holds; worker is what route or the
\* worker did ("none" until then)
NoOutcome == [kind |-> "none", value |-> AnalysisResult(FALSE, Text("", ""), << >>)]

Created == [state |-> "created", worker |-> NoOutcome, result |-> NoOutcome]

Running == [state |-> "running", worker |-> NoOutcome, result |-> NoOutcome]

Finished(worker, result) == [state |-> "finished", worker |-> worker, result |-> result]

\* mutant of AllSuccess: any() in place of all()
AnySuccess(rs) == \E i \in 1..Len(rs) : rs[i].success

\* all(r.success for r in results)
AllSuccess(rs) == \A i \in 1..Len(rs) : rs[i].success

(* ---------------------------------------------------------------------- *)
(* Initial states: any plan within the bounds, any registry                *)
(* ---------------------------------------------------------------------- *)

\* prerequisite ids a plan of n tasks may name: its own tasks and one id absent from it
DepCandidates(n) == 1..(n + 1)

\* the dependency mapping that the entries (task, prerequisite) of e make up
EdgeMap(n, e) == [t \in 1..n |-> { e[k][2] : k \in { j \in DOMAIN e : e[j][1] = t } }]

EdgeLists(n) == UNION { [1..k -> (1..n) \X DepCandidates(n)] : k \in 0..MaxEdges }

TypeMaps(n) ==
    { tt \in [1..n -> TaskType] :
        Cardinality({ t \in 1..n : tt[t] = "debug" }) <= MaxUnrouted }

\* a dependency mapping either has an entry for every task, or (as the planner
\* builds it) only for the tasks that have prerequisites
Restrict(f, dom) == [x \in dom |-> f[x]]

DependencyMap(dm, sparse) ==
    IF sparse THEN Restrict(dm, { t \in DOMAIN dm : dm[t] # {} }) ELSE dm

\* ExecutionPlan(plan_id, tasks, dependencies): tasks 1..n in list order
ExecutionPlan(n, tt, dm) ==
    [plan_id |-> "plan", tasks |-> [i \in 1..n |-> i], task_type |-> tt,
     dependencies |-> dm, metadata |-> "metadata"]

\* the registry after construction and one register_agent call: a worker for
\* timing_analysis, none for debug.  route depends on the registry only through
\* whether the task's type is a key, so the task types of the plan range over both
Registries == { [tt \in {"timing_analysis"} |-> "agent"] }

\* no value was given or raised yet
NoFbOutcome == [kind |-> "none", ref |-> 0, exception |-> Text("", "")]

\* no run was called yet
NoTrace ==
    [run |-> 0, first |-> 0, worker_calls |-> 0, repair_calls |-> 0,
     processed |-> << >>, all_worker_calls |-> 0, exit |-> "none"]

\* no ParallelExecutor is in use
NoBatch ==
    /\ max_concurrent = 0
    /\ semaphore = 0
    /\ jobs = << >>
    /\ batch_tasks = << >>
    /\ batch_pc = "idle"
    /\ processed_results = << >>

\* no call was made on the registry, the parser, the planner or the record form
NothingCalled ==
    /\ registered = << >>
    /\ routed = << >>
    /\ parsed = << >>
    /\ plans = << >>
    /\ stored = << >>
    /\ NoBatch

\* FeedbackLoop.__init__(max_iterations), and no run in progress
FeedbackConstructed(n) ==
    /\ max_iterations = n
    /\ iteration_history = << >>
    /\ objects = << >>
    /\ fb_pc = "idle"
    /\ iteration = 0
    /\ current_task = 0
    /\ fb_result = 0
    /\ fb_outcome = NoFbOutcome
    /\ fb_trace = NoTrace

Init ==
    /\ FeedbackConstructed(0)
    /\ NothingCalled
    /\ fb_env = [worker |-> << >>, repair |-> << >>]
    /\ \E n \in 1..MaxTasks :
          \E tt \in TypeMaps(n), e \in EdgeLists(n), sparse \in BOOLEAN :
             plan = ExecutionPlan(n, tt, DependencyMap(EdgeMap(n, e), sparse))
    /\ agent_registry \in Registries
    /\ status = [t \in TaskIds(plan) |-> PENDING]
    /\ completed = {}
    /\ results = << >>
    /\ next_tasks = << >>
    /\ coro = << >>
    /\ pc = "loop"
    /\ returned = [results |-> << >>]
    /\ exitAt = "none"
    /\ frontiers = << >>
    /\ executed = << >>
    /\ finished = << >>

(* ---------------------------------------------------------------------- *)
(* execute_plan                                                            *)
(* ---------------------------------------------------------------------- *)

\* return results (line 380): the caller receives the list and nothing else
Return(how) ==
    /\ pc' = "done"
    /\ exitAt' = how
    /\ returned' = [results |-> results]
    /\ UNCHANGED << plan, agent_registry, status, completed, results, next_tasks,
                    coro, frontiers, executed, finished >>
    /\ UNCHANGED << fvars, xvars >>

\* lines 353: the while condition is false
LoopExit ==
    /\ pc = "loop"
    /\ ~ LoopCondition(completed, plan)
    /\ Return("while")

\* lines 353-359: the frontier is empty, break
LoopBreak ==
    /\ pc = "loop"
    /\ LoopCondition(completed, plan)
    /\ get_next_tasks(plan, completed) = << >>
    /\ Return("break")

\* lines 353-365: compute the frontier and hand one coroutine per task to gather
LoopGather ==
    /\ pc = "loop"
    /\ LoopCondition(completed, plan)
    /\ get_next_tasks(plan, completed) # << >>
    /\ next_tasks' = get_next_tasks(plan, completed)
    /\ coro' = [i \in 1..Len(next_tasks') |-> Created]
    /\ frontiers' = Append(frontiers, next_tasks')
    /\ finished' = << >>
    /\ pc' = "gather"
    /\ UNCHANGED << plan, agent_registry, status, completed, results, returned,
                    exitAt, executed >>
    /\ UNCHANGED << fvars, xvars >>

\* _execute_task starts (lines 384-386): route, then the worker is entered;
\* a route that raises ends the coroutine at once in the except branch
StartTask(i) ==
    /\ pc = "gather"
    /\ coro[i].state = "created"
    /\ LET r == route(agent_registry, plan.task_type[next_tasks[i]])
       IN  /\ coro' = [coro EXCEPT ![i] =
                         IF r.kind = "raise" THEN Finished(r, ExecuteTask(r)) ELSE Running]
           /\ finished' = IF r.kind = "raise" THEN Append(finished, next_tasks[i])
                          ELSE finished
    /\ UNCHANGED << plan, agent_registry, status, completed, results, next_tasks,
                    pc, returned, exitAt, frontiers, executed >>
    /\ UNCHANGED << fvars, xvars >>

\* agent.process(task) returns or raises (lines 386-394)
FinishTask(i) ==
    /\ pc = "gather"
    /\ coro[i].state = "running"
    /\ \E o \in WorkerOutcomes :
          coro' = [coro EXCEPT ![i] = Finished(o, ExecuteTask(o))]
    /\ finished' = Append(finished, next_tasks[i])
    /\ UNCHANGED << plan, agent_registry, status, completed, results, next_tasks,
                    pc, returned, exitAt, frontiers, executed >>
    /\ UNCHANGED << fvars, xvars >>

\* mutant of GatherReady: the wait ends with the first finished coroutine
GatherReadyAny(c) == \E i \in 1..Len(c) : c[i].state = "finished"

\* gather returns when every coroutine has finished
GatherReady(c) == \A i \in 1..Len(c) : c[i].state = "finished"

\* mutant of StatusWrite: the status goes to every task of the plan
StatusWriteAll(st, task, result) == [t \in DOMAIN st |-> StatusOf(result)]

\* task.status = TaskStatus.COMPLETED if result.success else TaskStatus.FAILED
StatusWrite(st, task, result) == [st EXCEPT ![task] = StatusOf(result)]

\* mutant of Collect: the results are taken in the order the workers finished
RECURSIVE CollectAsCompleted(_, _, _, _)
CollectAsCompleted(st, k, nt, c) ==
    IF k = 0 THEN st
    ELSE LET prev == CollectAsCompleted(st, k - 1, nt, c)
             task == finished[k]
             result == GatherResult(c[CHOOSE i \in 1..Len(nt) : nt[i] = task].result)
         IN  [results |-> Append(prev.results, result),
              completed |-> CompletedAdd(prev.completed, task, result),
              status |-> StatusWrite(prev.status, task, result),
              executed |-> Append(prev.executed, task)]

\* the for loop of lines 367-378 over zip(next_tasks, task_results), first k pairs
RECURSIVE Collect(_, _, _, _)
Collect(st, k, nt, c) ==
    IF k = 0 THEN st
    ELSE LET prev == Collect(st, k - 1, nt, c)
             task == nt[k]
             result == GatherResult(c[k].result)
         IN  [results |-> Append(prev.results, result),
              completed |-> CompletedAdd(prev.completed, task, result),
              status |-> StatusWrite(prev.status, task, result),
              executed |-> Append(prev.executed, task)]

\* lines 362-378: gather has returned; record every (task, result) pair
GatherDone ==
    /\ pc = "gather"
    /\ GatherReady(coro)
    /\ LET st == Collect([results |-> results, completed |-> completed,
                          status |-> status, executed |-> executed],
                         Len(next_tasks), next_tasks, coro)
       IN  /\ results' = st.results
           /\ completed' = st.completed
           /\ status' = st.status
           /\ executed' = st.executed
    /\ pc' = "loop"
    /\ finished' = << >>
    /\ UNCHANGED << plan, agent_registry, next_tasks, coro, returned, exitAt, frontiers >>
    /\ UNCHANGED << fvars, xvars >>

Next ==
    \/ LoopExit
    \/ LoopBreak
    \/ LoopGather
    \/ \E i \in 1..Len(coro) : StartTask(i)
    \/ \E i \in 1..Len(coro) : FinishTask(i)
    \/ GatherDone

Spec == Init /\ [][Next]_vars

\* every await of execute_plan resumes: each started worker call returns or raises
FairSpec == Spec /\ WF_vars(Next)

TypeOK ==
    /\ pc \in {"loop", "gather", "done"}
    /\ completed \subseteq TaskIds(plan)
    /\ Len(results) = Len(executed)
    /\ \A t \in TaskIds(plan) : status[t] \in TaskStatus
    /\ exitAt \in {"none", "while", "break"}

(* ---------------------------------------------------------------------- *)
(* FeedbackLoop (analysis/log_analyzer.py)                                 *)
(* ---------------------------------------------------------------------- *)

\* largest retry budget max_iterations of a modelled FeedbackLoop
MaxBudget == 3

\* largest number of run calls made on one FeedbackLoop instance
MaxRuns == 2

\* AnalysisResult with the fields FeedbackLoop.run reads or writes
FeedbackResult(success, summary, errors, recommendations) ==
    [success |-> success, summary |-> summary, errors |-> errors,
     recommendations |-> recommendations]

\* what one call of analysis_agent.process may do: return a success, return a
\* failure with or without recommendations, or raise an Exception
ProcessOutcomes ==
    { [kind |-> "return", value |-> FeedbackResult(TRUE, Text("ok", ""), << >>, << >>)],
      [kind |-> "return",
       value |-> FeedbackResult(FALSE, Text("violations", ""),
                                << Text("violation found", "") >>,
                                << Text("relax the constraint", "") >>)],
      [kind |-> "return",
       value |-> FeedbackResult(FALSE, Text("violations", ""),
                                << Text("violation found", "") >>, << >>)],
      [kind |-> "raise", value |-> Text("log not found", "")] }

\* what one call of fix_callback may do: return the next task, or raise an Exception
RepairOutcomes ==
    { [kind |-> "return", value |-> Text("", "")],
      [kind |-> "raise", value |-> Text("repair crashed", "")] }

\* the id of initial_task, and of the task that the k-th fix_callback call returns
InitialTask == 0

RepairedTask(k) == k

\* str(n) of a small int
Str(n) == << "0", "1", "2", "3", "4", "5", "6", "7", "8", "9" >>[n + 1]

\* mutant of FixFailedText: the text of the fault is left out
FixFailedTextDropped(e) == Text("Fix callback failed: ", "")

\* f"Fix callback failed: {str(e)}"
FixFailedText(e) == Text("Fix callback failed: ", e.text)

\* f"Max iterations ({self.max_iterations}) reached"
MaxIterationsText(n) == Text("Max iterations reached", Str(n))

\* the entry appended to iteration_history (lines 425-430), timestamp left out;
\* 'result' is result.__dict__, the attribute dictionary of the object itself
HistoryEntry(i, task, ref) == [iteration |-> i, task_id |-> task, result |-> ref]

\* mutant of ErrorsAppend: nothing is appended
ErrorsAppendNothing(objs, ref, text) == objs

\* result.errors.append(text) on the object behind ref
ErrorsAppend(objs, ref, text) ==
    [objs EXCEPT ![ref].errors = Append(objs[ref].errors, text)]

\* mutant of AfterProcess: the success test is missing
AfterProcessNoSuccessTest(result) ==
    IF result.recommendations = << >> THEN "no_recommendations" ELSE "fix"

\* mutant of AfterProcess: the recommendations test is missing
AfterProcessNoRecommendationsTest(result) ==
    IF result.success THEN "success" ELSE "fix"

\* lines 433-438: which way run goes once the result is in the history
AfterProcess(result) ==
    IF result.success THEN "success"
    ELSE IF result.recommendations = << >> THEN "no_recommendations"
    ELSE "fix"

\* mutant of LoopContinues: one iteration too few
LoopContinuesShort(i, n) == i + 2 < n

\* for iteration in range(self.max_iterations): another iteration follows iteration i
LoopContinues(i, n) == i + 1 < n

\* mutant of NextTask: the task that the repair step returned is dropped
NextTaskKept(task, repaired) == task

\* current_task = await fix_callback(result.recommendations)
NextTask(task, repaired) == repaired

\* what get_history() shows: every entry with the present content of its result
HistoryView(h, objs) ==
    [k \in 1..Len(h) |->
        [iteration |-> h[k].iteration, task_id |-> h[k].task_id, result |-> objs[h[k].result]]]

\* execute_plan is not running and has no plan
NoPlanRun ==
    /\ plan = ExecutionPlan(0, << >>, << >>)
    /\ status = << >>
    /\ completed = {}
    /\ results = << >>
    /\ next_tasks = << >>
    /\ coro = << >>
    /\ pc = "idle"
    /\ returned = [results |-> << >>]
    /\ exitAt = "none"
    /\ frontiers = << >>
    /\ executed = << >>
    /\ finished = << >>

SchedulerIdle == NoPlanRun /\ agent_registry \in Registries

FeedbackInit ==
    /\ SchedulerIdle
    /\ NothingCalled
    /\ \E n \in 0..MaxBudget :
          /\ FeedbackConstructed(n)
          /\ \E w \in [1..n -> ProcessOutcomes], r \in [1..n -> RepairOutcomes] :
                fb_env = [worker |-> w, repair |-> r]

\* run leaves by a return statement or by an exception that reaches the caller
FbLeave(kind, ref, exception, exit, calls) ==
    /\ fb_pc' = IF kind = "return" THEN "returned" ELSE "raised"
    /\ fb_outcome' = [kind |-> kind, ref |-> ref, exception |-> exception]
    /\ fb_trace' = [calls EXCEPT !.exit = exit]

\* run(initial_task, analysis_agent, fix_callback) is called (lines 418-420);
\* with an empty range the loop body never runs and line 448 reads the
\* unbound local result
FbRun ==
    /\ fb_pc \in {"idle", "returned", "raised"}
    /\ fb_trace.run < MaxRuns
    /\ current_task' = InitialTask
    /\ iteration' = 0
    /\ fb_result' = 0
    /\ LET calls == [run |-> fb_trace.run + 1, first |-> Len(iteration_history),
                     worker_calls |-> 0, repair_calls |-> 0,
                     processed |-> << >>,
                     all_worker_calls |-> fb_trace.all_worker_calls, exit |-> "none"]
       IN  IF max_iterations > 0
           THEN /\ fb_pc' = "process"
                /\ fb_outcome' = NoFbOutcome
                /\ fb_trace' = calls
           ELSE FbLeave("raise", 0, Text("UnboundLocalError", "result"), "unbound", calls)
    /\ UNCHANGED << max_iterations, iteration_history, objects, fb_env >>
    /\ UNCHANGED << svars, xvars >>

\* lines 422-438: analysis_agent.process returns or raises; a returned result
\* goes into the history, then run returns it or goes on to the repair step
FbProcess ==
    /\ fb_pc = "process"
    /\ LET o == fb_env.worker[fb_trace.worker_calls + 1]
           calls == [fb_trace EXCEPT !.worker_calls = @ + 1,
                                     !.processed = Append(@, current_task),
                                     !.all_worker_calls = @ + 1]
           ref == Len(objects) + 1
       IN  IF o.kind = "raise"
           THEN /\ FbLeave("raise", 0, o.value, "worker_fault", calls)
                /\ UNCHANGED << iteration_history, objects, fb_result >>
           ELSE /\ objects' = Append(objects, o.value)
                /\ fb_result' = ref
                /\ iteration_history' =
                      Append(iteration_history, HistoryEntry(iteration, current_task, ref))
                /\ IF AfterProcess(o.value) = "fix"
                   THEN /\ fb_pc' = "fix"
                        /\ fb_trace' = calls
                        /\ UNCHANGED fb_outcome
                   ELSE FbLeave("return", ref, Text("", ""), AfterProcess(o.value), calls)
    /\ UNCHANGED << max_iterations, iteration, current_task, fb_env >>
    /\ UNCHANGED << svars, xvars >>

\* lines 441-449: fix_callback returns the next task or raises; after the last
\* iteration the result is marked and returned
FbFix ==
    /\ fb_pc = "fix"
    /\ LET o == fb_env.repair[fb_trace.repair_calls + 1]
           calls == [fb_trace EXCEPT !.repair_calls = @ + 1]
       IN  IF o.kind = "raise"
           THEN /\ objects' = ErrorsAppend(objects, fb_result, FixFailedText(o.value))
                /\ FbLeave("return", fb_result, Text("", ""), "fix_failed", calls)
                /\ UNCHANGED << iteration, current_task >>
           ELSE /\ current_task' = NextTask(current_task, RepairedTask(calls.repair_calls))
                /\ IF LoopContinues(iteration, max_iterations)
                   THEN /\ iteration' = iteration + 1
                        /\ fb_pc' = "process"
                        /\ fb_trace' = calls
                        /\ UNCHANGED << objects, fb_outcome >>
                   ELSE /\ objects' = ErrorsAppend(objects, fb_result,
                                                   MaxIterationsText(max_iterations))
                        /\ FbLeave("return", fb_result, Text("", ""), "exhausted", calls)
                        /\ UNCHANGED iteration
    /\ UNCHANGED << max_iterations, iteration_history, fb_result, fb_env >>
    /\ UNCHANGED << svars, xvars >>

FeedbackNext ==
    \/ FbRun
    \/ FbProcess
    \/ FbFix

FeedbackSpec == FeedbackInit /\ [][FeedbackNext]_vars

(* ---------------------------------------------------------------------- *)
(* DynamicRouter: the registry (agents/supervisor.py)                      *)
(* ---------------------------------------------------------------------- *)

\* largest number of register_agent calls and of route calls on one router
MaxRegistrations == 3
MaxRoutes == 2

\* the Agent objects handed to register_agent
Agents == {"agent", "other_agent"}

\* mutant of register_agent: a type already registered keeps its agent
register_agentKeepFirst(reg, ttype, agent) ==
    [x \in DOMAIN reg \cup {ttype} |-> IF x \in DOMAIN reg THEN reg[x] ELSE agent]

\* self.agent_registry[task_type] = agent
register_agent(reg, ttype, agent) ==
    [x \in DOMAIN reg \cup {ttype} |-> IF x = ttype THEN agent ELSE reg[x]]

\* DynamicRouter.__init__: an empty registry
RegistryInit ==
    /\ NoPlanRun
    /\ agent_registry = << >>
    /\ FeedbackConstructed(0)
    /\ fb_env = [worker |-> << >>, repair |-> << >>]
    /\ NothingCalled

\* a call of register_agent(task_type, agent)
RegisterAgent ==
    /\ Len(registered) < MaxRegistrations
    /\ \E ttype \in TaskType, agent \in Agents :
          /\ agent_registry' = register_agent(agent_registry, ttype, agent)
          /\ registered' = Append(registered, [task_type |-> ttype, agent |-> agent])
    /\ UNCHANGED << plan, status, completed, results, next_tasks, coro, pc, returned,
                    exitAt, frontiers, executed, finished >>
    /\ UNCHANGED << fvars, routed, parsed, plans, stored, bvars >>

\* a call of route(task) for a task of some type: it returns or raises
RouteTask ==
    /\ Len(routed) < MaxRoutes
    /\ \E ttype \in TaskType :
          routed' = Append(routed, [task_type |-> ttype,
                                    registrations |-> Len(registered),
                                    outcome |-> route(agent_registry, ttype)])
    /\ UNCHANGED << svars, fvars, registered, parsed, plans, stored, bvars >>

RegistryNext ==
    \/ RegisterAgent
    \/ RouteTask

RegistrySpec == RegistryInit /\ [][RegistryNext]_vars

(* ---------------------------------------------------------------------- *)
(* SupervisorAgent: the planner (agents/supervisor.py)                     *)
(* ---------------------------------------------------------------------- *)

\* largest number of create_execution_plan calls on one SupervisorAgent
MaxPlans == 2

\* a str that the code takes apart or puts together (an id, a command) is
\* the sequence of its characters

\* all members of TaskType (the plans that the scheduler above runs take
\* their types from the two in TaskType)
TaskTypeEnum ==
    {"rtl_modification", "script_tuning", "verification", "timing_analysis",
     "power_optimization", "debug"}

\* a dict is the set of its (key, value) items
EmptyDict == {}

\* mutant of Task: the id carries the time of creation
TaskIdStamped(task_id, task_type, description, context, now) ==
    [task_id |-> task_id \o << Str(now) >>, task_type |-> task_type,
     description |-> description, status |-> PENDING, context |-> context,
     created_at |-> now]

\* Task(task_id, task_type, description, context): status and created_at get
\* their defaults; now stands for datetime.now()
Task(task_id, task_type, description, context, now) ==
    [task_id |-> task_id, task_type |-> task_type, description |-> description,
     status |-> PENDING, context |-> context, created_at |-> now]

\* task.context.get('target_modules', [])
ContextGet(context, key, default) ==
    IF \E kv \in context : kv[1] = key
    THEN (CHOOSE kv \in context : kv[1] = key)[2]
    ELSE default

\* the fixed suffixes of the sub-task ids
Suffix_kg_load == << "_", "k", "g", "_", "l", "o", "a", "d" >>

Suffix_gen_script == << "_", "g", "e", "n", "_", "s", "c", "r", "i", "p", "t" >>

Suffix_run_sta == << "_", "r", "u", "n", "_", "s", "t", "a" >>

Suffix_analyze == << "_", "a", "n", "a", "l", "y", "z", "e" >>

Suffix_analyze_rtl == << "_", "a", "n", "a", "l", "y", "z", "e", "_", "r", "t", "l" >>

Suffix_gen_fix == << "_", "g", "e", "n", "_", "f", "i", "x" >>

\* mutant of Suffix_lint: a suffix that is the tail of another suffix
Suffix_fix == << "_", "f", "i", "x" >>

Suffix_lint == << "_", "l", "i", "n", "t" >>

Suffix_load_template == << "_", "l", "o", "a", "d", "_", "t", "e", "m", "p", "l", "a", "t", "e" >>

Suffix_optimize == << "_", "o", "p", "t", "i", "m", "i", "z", "e" >>

Suffix_verify == << "_", "v", "e", "r", "i", "f", "y" >>

Suffix_power_analysis == << "_", "p", "o", "w", "e", "r", "_", "a", "n", "a", "l", "y", "s", "i", "s" >>

Suffix_identify_issue == << "_", "i", "d", "e", "n", "t", "i", "f", "y", "_", "i", "s", "s", "u", "e" >>

Suffix_suggest_fix == << "_", "s", "u", "g", "g", "e", "s", "t", "_", "f", "i", "x" >>

\* mutant of DictSet: the key itself is stored among its prerequisites
DictSetWithKey(dict, key, value) ==
    [k \in DOMAIN dict \cup {key} |-> IF k = key THEN value \o << key >> ELSE dict[k]]

\* dependencies[t.task_id] = deps, on the dict built so far (a later
\* assignment to the same key replaces the earlier one)
DictSet(dict, key, value) ==
    [k \in DOMAIN dict \cup {key} |-> IF k = key THEN value ELSE dict[k]]

\* _plan_timing_analysis (lines 140-185)
plan_timing_analysis(task, now) ==
    LET t1 == Task(task.task_id \o Suffix_kg_load, "verification",
                  "Load module context from Knowledge Graph",
                  {<< "target_modules",
                      ContextGet(task.context, "target_modules", "[]") >>}, now)
        t2 == Task(task.task_id \o Suffix_gen_script, "script_tuning",
                  "Generate PrimeTime timing analysis script", {<< "tool", "PrimeTime" >>}, now)
        t3 == Task(task.task_id \o Suffix_run_sta, "timing_analysis",
                  "Run static timing analysis", {<< "tool", "PrimeTime" >>}, now)
        t4 == Task(task.task_id \o Suffix_analyze, "debug",
                  "Analyze timing violations and suggest fixes", EmptyDict, now)
    IN  [sub_tasks |-> << t1, t2, t3, t4 >>,
         dependencies |-> DictSet(DictSet(DictSet(DictSet(<< >>, t1.task_id, << >>),
                         t2.task_id, << t1.task_id >>),
                         t3.task_id, << t2.task_id >>),
                         t4.task_id, << t3.task_id >>)]

\* _plan_rtl_modification (lines 187-222)
plan_rtl_modification(task, now) ==
    LET t1 == Task(task.task_id \o Suffix_analyze_rtl, "verification",
                  "Analyze RTL code structure", task.context, now)
        t2 == Task(task.task_id \o Suffix_gen_fix, "rtl_modification",
                  "Generate RTL modifications", task.context, now)
        t3 == Task(task.task_id \o Suffix_lint, "verification",
                  "Run lint check on modified RTL", {<< "tool", "SpyGlass" >>}, now)
    IN  [sub_tasks |-> << t1, t2, t3 >>,
         dependencies |-> DictSet(DictSet(DictSet(<< >>, t1.task_id, << >>),
                         t2.task_id, << t1.task_id >>),
                         t3.task_id, << t2.task_id >>)]

\* mutant of plan_script_tuning: the second step does not wait for the first
plan_script_tuningUnchained(task, now) ==
    LET t1 == Task(task.task_id \o Suffix_load_template, "verification",
                  "Load script template", task.context, now)
        t2 == Task(task.task_id \o Suffix_optimize, "script_tuning",
                  "Optimize script parameters", task.context, now)
    IN  [sub_tasks |-> << t1, t2 >>,
         dependencies |-> DictSet(DictSet(<< >>, t1.task_id, << >>), t2.task_id, << >>)]

\* _plan_script_tuning (lines 224-247)
plan_script_tuning(task, now) ==
    LET t1 == Task(task.task_id \o Suffix_load_template, "verification",
                  "Load script template", task.context, now)
        t2 == Task(task.task_id \o Suffix_optimize, "script_tuning",
                  "Optimize script parameters", task.context, now)
    IN  [sub_tasks |-> << t1, t2 >>,
         dependencies |-> DictSet(DictSet(<< >>, t1.task_id, << >>), t2.task_id, << t1.task_id >>)]

\* _plan_verification (lines 249-263)
plan_verification(task, now) ==
    LET t1 == Task(task.task_id \o Suffix_verify, "verification",
                  "Run verification checks", task.context, now)
    IN  [sub_tasks |-> << t1 >>,
         dependencies |-> DictSet(<< >>, t1.task_id, << >>)]

\* _plan_power_optimization (lines 265-280)
plan_power_optimization(task, now) ==
    LET t1 == Task(task.task_id \o Suffix_power_analysis, "power_optimization",
                  "Analyze power consumption", task.context, now)
    IN  [sub_tasks |-> << t1 >>,
         dependencies |-> DictSet(<< >>, t1.task_id, << >>)]

\* _plan_debug (lines 282-305)
plan_debug(task, now) ==
    LET t1 == Task(task.task_id \o Suffix_identify_issue, "debug",
                  "Identify root cause", task.context, now)
        t2 == Task(task.task_id \o Suffix_suggest_fix, "debug",
                  "Suggest fixes", task.context, now)
    IN  [sub_tasks |-> << t1, t2 >>,
         dependencies |-> DictSet(DictSet(<< >>, t1.task_id, << >>), t2.task_id, << t1.task_id >>)]

\* create_execution_plan(task): plan_id stands for the fresh "plan_<uuid>" id
create_execution_plan(task, plan_id, now) ==
    LET planned ==
            IF task.task_type = "timing_analysis" THEN plan_timing_analysis(task, now)
            ELSE IF task.task_type = "rtl_modification" THEN plan_rtl_modification(task, now)
            ELSE IF task.task_type = "script_tuning" THEN plan_script_tuning(task, now)
            ELSE IF task.task_type = "verification" THEN plan_verification(task, now)
            ELSE IF task.task_type = "power_optimization"
                 THEN plan_power_optimization(task, now)
            ELSE plan_debug(task, now)
    IN  [plan_id |-> plan_id,
         tasks |-> planned.sub_tasks,
         dependencies |-> planned.dependencies,
         metadata |-> [parent_task_id |-> task.task_id, created_at |-> now]]

\* f"plan_{uuid.uuid4().hex[:8]}": the n-th fresh id
PlanId(n) == << "p", "l", "a", "n", "_", Str(n) >>

\* the ids of the root tasks handed to the planner: ids as parse_user_command
\* makes them ("task_" and 8 hex digits), a short id, and that id extended by
\* the first part of each suffix that has two parts
RootIds ==
    { << "t" >>,
      << "t", "_", "k", "g" >>,
      << "t", "_", "g", "e", "n" >>,
      << "t", "_", "r", "u", "n" >>,
      << "t", "_", "a", "n", "a", "l", "y", "z", "e" >>,
      << "t", "_", "l", "o", "a", "d" >>,
      << "t", "_", "p", "o", "w", "e", "r" >>,
      << "t", "_", "i", "d", "e", "n", "t", "i", "f", "y" >>,
      << "t", "_", "s", "u", "g", "g", "e", "s", "t" >>,
      << "t", "a", "s", "k", "_", "0", "0", "0", "0", "0", "0", "0", "a" >>,
      << "t", "a", "s", "k", "_", "0", "0", "0", "0", "0", "0", "0", "b" >> }

\* the types of the root tasks: the members of TaskType, and a value that is
\* none of them (the else branch takes whatever is left)
RootTypes == TaskTypeEnum \cup {"other"}

RootTasks ==
    { Task(id, ttype, "root", {<< "target_modules", "['Dma']" >>}, 0) :
        id \in RootIds, ttype \in RootTypes }

\* SupervisorAgent.__init__: nothing parsed, nothing planned
SupervisorInit ==
    /\ NoPlanRun
    /\ agent_registry = << >>
    /\ FeedbackConstructed(0)
    /\ fb_env = [worker |-> << >>, repair |-> << >>]
    /\ NothingCalled

\* a call of create_execution_plan(task); the clock is the number of the call
CreateExecutionPlan ==
    /\ Len(plans) < MaxPlans
    /\ \E task \in RootTasks :
          plans' = Append(plans,
                          [task |-> task,
                           plan |-> create_execution_plan(task, PlanId(Len(plans) + 1),
                                                          Len(plans) + 1)])
    /\ UNCHANGED << svars, fvars, registered, routed, parsed, stored, bvars >>

PlannerNext == CreateExecutionPlan

PlannerSpec == SupervisorInit /\ [][PlannerNext]_vars

(* ---------------------------------------------------------------------- *)
(* SupervisorAgent: parse_user_command (agents/supervisor.py)              *)
(* ---------------------------------------------------------------------- *)

\* largest number of parse_user_command calls on one SupervisorAgent
MaxParsed == 1

\* _initialize_patterns: the rules in the order of the dict, each pattern as
\* the set of its alternatives; a character outside ASCII is written as its
\* code point
task_patterns ==
    << [alternatives |->
           { << "U+D0C0", "U+C774", "U+BC0D" >>,
             << "t", "i", "m", "i", "n", "g" >>,
             << "s", "l", "a", "c", "k" >>,
             << "s", "e", "t", "u", "p" >>,
             << "h", "o", "l", "d" >> },
        task_type |-> "timing_analysis"],
       [alternatives |->
           { << "U+C804", "U+B825" >>,
             << "p", "o", "w", "e", "r" >>,
             << "l", "e", "a", "k", "a", "g", "e" >>,
             << "d", "y", "n", "a", "m", "i", "c" >> },
        task_type |-> "power_optimization"],
       [alternatives |->
           { << "U+C218", "U+C815" >>,
             << "f", "i", "x" >>,
             << "m", "o", "d", "i", "f", "y" >>,
             << "c", "h", "a", "n", "g", "e" >>,
             << "e", "d", "i", "t" >> },
        task_type |-> "rtl_modification"],
       [alternatives |->
           { << "U+C2A4", "U+D06C", "U+B9BD", "U+D2B8" >>,
             << "s", "c", "r", "i", "p", "t" >>,
             << "t", "c", "l" >>,
             << "m", "a", "k", "e", "f", "i", "l", "e" >> },
        task_type |-> "script_tuning"],
       [alternatives |->
           { << "U+AC80", "U+C99D" >>,
             << "v", "e", "r", "i", "f", "y" >>,
             << "l", "i", "n", "t" >>,
             << "c", "h", "e", "c", "k" >> },
        task_type |-> "verification"],
       [alternatives |->
           { << "U+B514", "U+BC84", "U+ADF8" >>,
             << "d", "e", "b", "u", "g" >>,
             << "e", "r", "r", "o", "r" >>,
             << "w", "a", "r", "n", "i", "n", "g" >> },
        task_type |-> "debug"] >>

UpperCase == << "A", "B", "C", "D", "E", "F", "G", "H", "I", "J", "K", "L", "M", "N", "O", "P", "Q", "R", "S", "T", "U", "V", "W", "X", "Y", "Z" >>

LowerCase == << "a", "b", "c", "d", "e", "f", "g", "h", "i", "j", "k", "l", "m", "n", "o", "p", "q", "r", "s", "t", "u", "v", "w", "x", "y", "z" >>

\* what re.IGNORECASE compares: the character with its case folded
Fold(c) ==
    IF \E i \in 1..Len(UpperCase) : UpperCase[i] = c
    THEN LowerCase[CHOOSE i \in 1..Len(UpperCase) : UpperCase[i] = c]
    ELSE c

\* the alternative occurs somewhere in the text, case ignored
Occurs(alt, text) ==
    \E i \in 1..(Len(text) - Len(alt) + 1) :
        \A j \in 1..Len(alt) : Fold(text[i + j - 1]) = Fold(alt[j])

\* re.search(pattern, command, re.IGNORECASE) for the k-th rule
Matches(k, command) == \E alt \in task_patterns[k].alternatives : Occurs(alt, command)

\* mutant of FirstMatch: the loop has no break, the last matching rule wins
RECURSIVE LastMatch(_, _, _)
LastMatch(k, command, default) ==
    IF k > Len(task_patterns) THEN default
    ELSE LastMatch(k + 1, command,
                   IF Matches(k, command) THEN task_patterns[k].task_type ELSE default)

\* lines 49-53: the type of the first rule from the k-th on that matches,
\* the default when none does
RECURSIVE FirstMatch(_, _, _)
FirstMatch(k, command, default) ==
    IF k > Len(task_patterns) THEN default
    ELSE IF Matches(k, command) THEN task_patterns[k].task_type
    ELSE FirstMatch(k + 1, command, default)

\* the characters used here that lie in the ranges that _is_korean searches
\* for (all are Hangul syllables, U+AC00 to U+D7A3)
Hangul ==
    { "U+AC80", "U+ADF8", "U+B514", "U+B825", "U+B9BD", "U+BC0D",
      "U+BC84", "U+C218", "U+C2A4", "U+C774", "U+C804", "U+C815",
      "U+C99D", "U+D06C", "U+D0C0", "U+D2B8" }

\* _is_korean(text)
is_korean(text) == \E i \in 1..Len(text) : text[i] \in Hangul

\* parse_user_command(command): uuid stands for uuid.uuid4().hex[:8];
\* context without target_modules
parse_user_command(command, uuid, now) ==
    Task(<< "t", "a", "s", "k", "_" >> \o uuid,
         FirstMatch(1, command, "verification"),
         command,
         { << "raw_command", command >>,
           << "language", IF is_korean(command) THEN << "k", "o" >> ELSE << "e", "n" >> >> },
         now)

\* the words that the commands handed to parse_user_command are made of: one
\* for each rule, in lower, upper and mixed case, in Korean, inside a longer
\* word, and words that no rule matches
Words ==
    { << "t", "i", "m", "i", "n", "g" >>,
      << "P", "o", "w", "e", "r" >>,
      << "F", "I", "X" >>,
      << "s", "c", "r", "i", "p", "t" >>,
      << "c", "h", "e", "c", "k" >>,
      << "d", "e", "b", "u", "g" >>,
      << "t", "h", "r", "e", "s", "h", "o", "l", "d" >>,
      << "U+C804", "U+B825" >>,
      << "h", "e", "l", "l", "o" >>,
      <<  >> }

Commands == Words \cup { a \o << " " >> \o b : a, b \in Words }

Uuids == { << "0", "0", "0", "0", "0", "0", "0", "a" >>, << "0", "0", "0", "0", "0", "0", "0", "b" >> }

\* a call of parse_user_command(command)
ParseUserCommand ==
    /\ Len(parsed) < MaxParsed
    /\ \E command \in Commands, uuid \in Uuids :
          parsed' = Append(parsed,
                           [command |-> command,
                            task |-> parse_user_command(command, uuid, Len(parsed) + 1)])
    /\ UNCHANGED << svars, fvars, registered, routed, plans, stored, bvars >>

ParserNext == ParseUserCommand

ParserSpec == SupervisorInit /\ [][ParserNext]_vars

(* ---------------------------------------------------------------------- *)
(* Task.to_dict: the record form of a Task (core/base.py)                  *)
(* ---------------------------------------------------------------------- *)

\* largest number of Tasks turned into records
MaxStored == 2

\* a value together with its Python type: an Enum member, a datetime, a str
EnumMember(class, value) == [type |-> class, value |-> value]

DateTime(t) == [type |-> "datetime", value |-> t]

StrValue(text) == [type |-> "str", value |-> text]

\* a Task object with all the fields of the dataclass
TaskObject(task_id, task_type, task_status, sub_tasks, created_at) ==
    [task_id |-> task_id,
     task_type |-> EnumMember("TaskType", task_type),
     description |-> "description",
     status |-> EnumMember("TaskStatus", task_status),
     priority |-> 5,
     context |-> {<< "tool", "PrimeTime" >>},
     results |-> EmptyDict,
     sub_tasks |-> sub_tasks,
     created_at |-> DateTime(created_at),
     metadata |-> EmptyDict]

\* Task.to_dict (lines 45-58): the Enum members become their values, the
\* datetime its isoformat() text, the sub-tasks their own records
RECURSIVE to_dict(_)
to_dict(task) ==
    [task_id |-> task.task_id,
     task_type |-> StrValue(task.task_type.value),
     description |-> task.description,
     status |-> StrValue(task.status.value),
     priority |-> task.priority,
     context |-> task.context,
     results |-> task.results,
     sub_tasks |-> [i \in 1..Len(task.sub_tasks) |-> to_dict(task.sub_tasks[i])],
     created_at |-> StrValue(task.created_at.value),
     metadata |-> task.metadata]

\* Task(**record): the dataclass constructor, the one way the code has to
\* make a Task from a record of its fields; it stores each value as given
TaskFromRecord(record) ==
    [task_id |-> record.task_id,
     task_type |-> record.task_type,
     description |-> record.description,
     status |-> record.status,
     priority |-> record.priority,
     context |-> record.context,
     results |-> record.results,
     sub_tasks |-> record.sub_tasks,
     created_at |-> record.created_at,
     metadata |-> record.metadata]

\* the Tasks turned into records: of every type and status, without
\* sub-tasks or with one
LeafTasks ==
    { TaskObject("t_sub", ttype, PENDING, << >>, "2024-01-01T00:00:00") :
        ttype \in {"verification", "debug"} }

TaskObjects ==
    { TaskObject("t", ttype, st, subs, "2024-01-02T00:00:00") :
        ttype \in TaskTypeEnum, st \in TaskStatus,
        subs \in {<< >>} \cup { << leaf >> : leaf \in LeafTasks } }

\* a Task is turned into its record and the record back into a Task
StoreTask ==
    /\ Len(stored) < MaxStored
    /\ \E task \in TaskObjects :
          stored' = Append(stored, [original |-> task,
                                    record |-> to_dict(task),
                                    restored |-> TaskFromRecord(to_dict(task))])
    /\ UNCHANGED << svars, fvars, registered, routed, parsed, plans, bvars >>

RecordNext == StoreTask

RecordSpec == SupervisorInit /\ [][RecordNext]_vars

(* ---------------------------------------------------------------------- *)
(* execute_command: the aggregate of the results of a plan (main.py)       *)
(* ---------------------------------------------------------------------- *)

\* mutant of Flatten: only the first entry of each list is kept
RECURSIVE FlattenFirstOnly(_)
FlattenFirstOnly(lists) ==
    IF lists = << >> THEN << >>
    ELSE (IF Head(lists) = << >> THEN << >> ELSE << Head(Head(lists)) >>)
            \o FlattenFirstOnly(Tail(lists))

\* [x for r in results for x in r.<field>], given the lists r.<field> in order
RECURSIVE Flatten(_)
Flatten(lists) ==
    IF lists = << >> THEN << >> ELSE Head(lists) \o Flatten(Tail(lists))

\* final_result of execute_command (lines 172-185), details left out
Aggregate(rs) ==
    [success |-> AllSuccess(rs),
     summary |-> Text("Executed tasks", Str(Len(rs))),
     errors |-> Flatten([k \in 1..Len(rs) |-> rs[k].errors]),
     warnings |-> Flatten([k \in 1..Len(rs) |-> rs[k].warnings]),
     recommendations |-> Flatten([k \in 1..Len(rs) |-> rs[k].recommendations])]

(* ---------------------------------------------------------------------- *)
(* ParallelExecutor (execution/tool_executor.py)                           *)
(* ---------------------------------------------------------------------- *)

\* largest number of jobs of a batch
MaxJobs == 3

\* largest max_concurrent of a modelled ParallelExecutor
MaxConcurrent == 2

\* what executor.execute may do for a job: return the record of a run with
\* return code 0 or of a run with another return code, or raise (the
\* ValueError of _build_command, which execute calls outside its try)
ExecuteOutcomes ==
    { [kind |-> "return", value |-> [success |-> TRUE, return_code |-> "0"]],
      [kind |-> "return", value |-> [success |-> FALSE, return_code |-> "1"]],
      [kind |-> "raise", value |-> Text("Unknown tool: ", "vcs")] }

\* a coroutine of _execute_with_semaphore: not yet run, waiting for the
\* semaphore, inside executor.execute, or finished with what execute did
JobCoroutine(state) == [state |-> state, outcome |-> [kind |-> "none"]]

JobFinished(outcome) == [state |-> "finished", outcome |-> outcome]

\* mutant of locked: the counter is not looked at
lockedNever(value) == FALSE

\* asyncio.Semaphore.locked(): acquire waits while the counter is zero
locked(value) == value = 0

\* lines 319-326: an exception that gather returned becomes a record
ProcessedResult(result) ==
    IF result.kind = "raise"
    THEN [success |-> FALSE, error |-> result.value]
    ELSE result.value

\* ParallelExecutor.__init__(executor, max_concurrent), no batch started
BatchInit ==
    /\ NoPlanRun
    /\ agent_registry = << >>
    /\ FeedbackConstructed(0)
    /\ fb_env = [worker |-> << >>, repair |-> << >>]
    /\ registered = << >> /\ routed = << >> /\ parsed = << >>
    /\ plans = << >> /\ stored = << >>
    /\ max_concurrent \in 0..MaxConcurrent
    /\ semaphore = max_concurrent
    /\ jobs = << >>
    /\ batch_tasks = << >>
    /\ batch_pc = "idle"
    /\ processed_results = << >>

\* execute_batch(jobs), lines 313-315: one coroutine per job is handed to gather
ExecuteBatch ==
    /\ batch_pc = "idle"
    /\ \E n \in 0..MaxJobs : \E js \in [1..n -> ExecuteOutcomes] :
          /\ jobs' = js
          /\ batch_tasks' = [i \in 1..n |-> JobCoroutine("created")]
    /\ batch_pc' = "gather"
    /\ UNCHANGED << max_concurrent, semaphore, processed_results >>
    /\ UNCHANGED << svars, fvars, registered, routed, parsed, plans, stored >>

\* async with self.semaphore (line 332): the coroutine of job i takes a slot
\* and calls executor.execute, or waits because the counter is zero
EnterSemaphore(i) ==
    /\ batch_pc = "gather"
    /\ batch_tasks[i].state = "created"
    /\ IF locked(semaphore)
       THEN /\ batch_tasks' = [batch_tasks EXCEPT ![i] = JobCoroutine("waiting")]
            /\ UNCHANGED semaphore
       ELSE /\ batch_tasks' = [batch_tasks EXCEPT ![i] = JobCoroutine("executing")]
            /\ semaphore' = semaphore - 1
    /\ UNCHANGED << max_concurrent, jobs, batch_pc, processed_results >>
    /\ UNCHANGED << svars, fvars, registered, routed, parsed, plans, stored >>

\* a release has woken the waiting coroutine of job i: it takes the slot and
\* calls executor.execute (lines 333-337)
LeaveWait(i) ==
    /\ batch_pc = "gather"
    /\ batch_tasks[i].state = "waiting"
    /\ ~ locked(semaphore)
    /\ batch_tasks' = [batch_tasks EXCEPT ![i] = JobCoroutine("executing")]
    /\ semaphore' = semaphore - 1
    /\ UNCHANGED << max_concurrent, jobs, batch_pc, processed_results >>
    /\ UNCHANGED << svars, fvars, registered, routed, parsed, plans, stored >>

\* executor.execute returns or raises for job i; leaving the async with
\* block releases the slot either way
FinishExecute(i) ==
    /\ batch_pc = "gather"
    /\ batch_tasks[i].state = "executing"
    /\ batch_tasks' = [batch_tasks EXCEPT ![i] = JobFinished(jobs[i])]
    /\ semaphore' = semaphore + 1
    /\ UNCHANGED << max_concurrent, jobs, batch_pc, processed_results >>
    /\ UNCHANGED << svars, fvars, registered, routed, parsed, plans, stored >>

\* lines 315-328: gather has returned, with return_exceptions=True, what the
\* coroutines gave in the order of the jobs; the list of records is returned
BatchDone ==
    /\ batch_pc = "gather"
    /\ \A i \in 1..Len(batch_tasks) : batch_tasks[i].state = "finished"
    /\ processed_results' =
          [i \in 1..Len(jobs) |-> ProcessedResult(batch_tasks[i].outcome)]
    /\ batch_pc' = "returned"
    /\ UNCHANGED << max_concurrent, semaphore, jobs, batch_tasks >>
    /\ UNCHANGED << svars, fvars, registered, routed, parsed, plans, stored >>

BatchNext ==
    \/ ExecuteBatch
    \/ \E i \in 1..Len(batch_tasks) : EnterSemaphore(i)
    \/ \E i \in 1..Len(batch_tasks) : LeaveWait(i)
    \/ \E i \in 1..Len(batch_tasks) : FinishExecute(i)
    \/ BatchDone

BatchSpec == BatchInit /\ [][BatchNext]_vars

\* the event loop resumes every coroutine that can go on, and every call of
\* executor.execute returns or raises
BatchFairSpec == BatchSpec /\ WF_vars(BatchNext)

(* ---------------------------------------------------------------------- *)
(* Notions the properties are stated with                                  *)
(* ---------------------------------------------------------------------- *)

\* every prerequisite id names a task of the plan
DepsInPlan(p) == \A t \in TaskIds(p) : DepsOf(p, t) \subseteq TaskIds(p)

\* the ids reachable from the set s along at most k further prerequisite edges
RECURSIVE Closure(_, _, _)
Closure(p, s, k) ==
    IF k = 0 THEN s
    ELSE Closure(p, s \cup UNION { DepsOf(p, u) : u \in s \cap TaskIds(p) }, k - 1)

\* the direct and transitive prerequisites of t
Ancestors(p, t) == Closure(p, DepsOf(p, t), Len(p.tasks))

OnCycle(p, t) == t \in Ancestors(p, t)

HasCycle(p) == \E t \in TaskIds(p) : OnCycle(p, t)

\* a plan that keeps the data-model invariants: prerequisites in the plan, no cycle
Acyclic(p) == DepsInPlan(p) /\ ~ HasCycle(p)

AllRouted(p, reg) == \A t \in TaskIds(p) : p.task_type[t] \in DOMAIN reg

\* the least set closed under "a task whose prerequisites are all in S is in S"
RECURSIVE ClosedUpTo(_, _, _)
ClosedUpTo(p, s, k) ==
    IF k = 0 THEN s
    ELSE ClosedUpTo(p, s \cup { t \in TaskIds(p) : DepsOf(p, t) \subseteq s }, k - 1)

LeastClosed(p) == ClosedUpTo(p, {}, Len(p.tasks))

\* tasks on a cycle, tasks with a prerequisite absent from the plan, and the
\* tasks that depend on either, directly or transitively
Blocked(p) ==
    { t \in TaskIds(p) :
        \E u \in {t} \cup Ancestors(p, t) : u \notin TaskIds(p) \/ OnCycle(p, u) }

SetMax(s) == CHOOSE x \in s : \A y \in s : y <= x

\* number of edges of the longest prerequisite chain ending in t (acyclic plans)
RECURSIVE Depth(_, _)
Depth(p, t) ==
    IF DepsOf(p, t) = {} THEN 0
    ELSE 1 + SetMax({ Depth(p, d) : d \in DepsOf(p, t) })

ExecutedTasks == Range(executed)

\* position of task t in executed (0 when it has no result)
PositionOf(t) ==
    IF t \in ExecutedTasks THEN CHOOSE k \in 1..Len(executed) : executed[k] = t ELSE 0

\* number of results that belong to task t
ResultCount(t) == Cardinality({ k \in 1..Len(executed) : executed[k] = t })

(* ---------------------------------------------------------------------- *)
(* Properties                                                              *)
(* ---------------------------------------------------------------------- *)

\* C1: for an acyclic plan (every prerequisite a task of the plan, no cycle)
\* whose task types all have a registered worker, whatever the workers return
\* or raise, execute_plan returns exactly len(plan.tasks) results, one per
\* task, and leaves its loop by the while condition, not by the stall break.
C1_AllTasksReturned ==
    (pc = "done" /\ Acyclic(plan) /\ AllRouted(plan, agent_registry)) =>
        /\ Len(returned.results) = Len(plan.tasks)
        /\ \A t \in TaskIds(plan) : ResultCount(t) = 1
        /\ exitAt = "while"

\* a three-task chain, all routed, in which a worker raised, has returned
C1_Witness ==
    /\ pc = "done"
    /\ Acyclic(plan) /\ AllRouted(plan, agent_registry)
    /\ Len(plan.tasks) = MaxTasks
    /\ \E t \in TaskIds(plan) : DepsOf(plan, t) # {}
    /\ \E k \in 1..Len(returned.results) : ~ returned.results[k].success
    /\ \E k \in 1..Len(returned.results) : returned.results[k].success

\* C2: for a plan whose dependency mapping contains a cycle, the value
\* execute_plan returns carries an explicit stall flag that is set, and holds
\* fewer results than the plan has tasks.
C2_StallFlagOnCycle ==
    (pc = "done" /\ HasCycle(plan)) =>
        /\ "stall" \in DOMAIN returned
        /\ returned.stall = TRUE
        /\ Len(returned.results) < Len(plan.tasks)

\* C3: a worker is started on a task only after every prerequisite of the
\* task has finished and has its result recorded: whenever a coroutine of the
\* current frontier has been started, each prerequisite of its task is in the
\* completed set, has a result in results, and is not in the current frontier.
C3_HappensBefore ==
    pc = "gather" =>
        \A i \in 1..Len(next_tasks) :
            coro[i].state # "created" =>
                \A d \in DepsOf(plan, next_tasks[i]) :
                    /\ d \in completed
                    /\ d \in ExecutedTasks
                    /\ d \notin Range(next_tasks)

\* two tasks that share a prerequisite run in one frontier, and the one listed
\* later has finished before the one listed first has started
C3_Witness ==
    /\ pc = "gather"
    /\ Len(next_tasks) >= 2
    /\ DepsOf(plan, next_tasks[1]) # {}
    /\ DepsOf(plan, next_tasks[2]) # {}
    /\ coro[1].state = "created"
    /\ coro[2].state = "finished"

\* index of the frontier that held task t (0 when t was in none)
FrontierOf(t) ==
    IF \E r \in 1..Len(frontiers) : t \in Range(frontiers[r])
    THEN CHOOSE r \in 1..Len(frontiers) : t \in Range(frontiers[r])
    ELSE 0

\* the text of the ValueError that route raises for a type without worker
NoCapability(ttype) == Text("No agent registered for task type: ", ttype)

Routed(t) == plan.task_type[t] \in DOMAIN agent_registry

\* C4: a task whose result has success=false is still in the completed set,
\* and at the end every task that depends on it and whose prerequisites were
\* all executed has itself been executed, in a later frontier.
C4_FailedUnblocks ==
    pc \in {"loop", "done"} =>
        \A k \in 1..Len(results) :
            ~ results[k].success =>
                /\ executed[k] \in completed
                /\ pc = "done" =>
                     \A d \in TaskIds(plan) :
                        (executed[k] \in DepsOf(plan, d) /\ DepsOf(plan, d) \subseteq ExecutedTasks)
                            => FrontierOf(d) > FrontierOf(executed[k])

\* a task failed and a task that depends on it was executed after it
C4_Witness ==
    /\ pc = "done"
    /\ \E k \in 1..Len(results) : \E d \in TaskIds(plan) :
          /\ ~ results[k].success
          /\ executed[k] \in DepsOf(plan, d)
          /\ FrontierOf(d) > FrontierOf(executed[k])

\* C5: a task whose type has no registered worker gets a failed result whose
\* errors hold the no-capability text; every task of every frontier handed to
\* gather has exactly one result, and the result of a task whose type is
\* registered is what its own worker produced, not the no-capability failure.
C5_NoCapabilityIsolated ==
    pc \in {"loop", "done"} =>
        /\ \A r \in 1..Len(frontiers) : \A t \in Range(frontiers[r]) : ResultCount(t) = 1
        /\ \A k \in 1..Len(results) :
              IF Routed(executed[k])
              THEN NoCapability(plan.task_type[executed[k]]) \notin Range(results[k].errors)
              ELSE /\ results[k].success = FALSE
                   /\ results[k].errors = << NoCapability(plan.task_type[executed[k]]) >>

\* one frontier held a task without worker and a task whose worker succeeded
C5_Witness ==
    /\ pc \in {"loop", "done"}
    /\ \E j, k \in 1..Len(results) :
          /\ FrontierOf(executed[j]) = FrontierOf(executed[k])
          /\ ~ Routed(executed[j])
          /\ results[j].errors = << NoCapability("debug") >>
          /\ Routed(executed[k])
          /\ results[k].success

\* the position in results of the i-th task of the frontier collected last
LastFrontierSlot(i) == Len(results) - Len(next_tasks) + i

\* C6: after a frontier is collected, the result of each task whose worker
\* raised is a failed result whose errors hold the description of the fault,
\* the result of each task whose worker returned is the value it returned,
\* and execute_plan is back at its loop (or has returned), not aborted.
C6_FaultBecomesResult ==
    (pc \in {"loop", "done"} /\ frontiers # << >>) =>
        /\ Len(results) >= Len(next_tasks)
        /\ \A i \in 1..Len(next_tasks) :
              /\ executed[LastFrontierSlot(i)] = next_tasks[i]
              /\ coro[i].worker.kind = "raise" =>
                    /\ results[LastFrontierSlot(i)].success = FALSE
                    /\ results[LastFrontierSlot(i)].errors = << coro[i].worker.value >>
              /\ coro[i].worker.kind = "return" =>
                    results[LastFrontierSlot(i)] = coro[i].worker.value

\* a worker raised in the first frontier, a sibling of it returned its own
\* result, and a second frontier is running
C6_Witness ==
    /\ pc = "gather"
    /\ Len(frontiers) = 2
    /\ Len(frontiers[1]) = 2
    /\ results[1].errors = << Text("boom", "") >>
    /\ results[2].success

\* C7: the completed set and the result list change, and a next frontier is
\* computed, only in a step taken when every coroutine of the current
\* frontier has finished.
C7_LevelSynchronous ==
    [][ (completed' # completed \/ results' # results \/ frontiers' # frontiers)
           => \A i \in 1..Len(coro) : coro[i].state = "finished" ]_vars

\* in the second frontier one worker has finished and another is still
\* running, and the finished task is not yet in the completed set
C7_Witness ==
    /\ pc = "gather"
    /\ Len(frontiers) = 2
    /\ \E i, j \in 1..Len(coro) :
          /\ coro[i].state = "finished"
          /\ coro[j].state = "running"
          /\ next_tasks[i] \notin completed

\* C8: execute_plan terminates, hands at most len(plan.tasks) frontiers to
\* gather, and every collected frontier adds at least one id to completed.
C8_Terminates ==
    /\ <>(pc = "done")
    /\ [](Len(frontiers) <= Len(plan.tasks))
    /\ [][ (pc = "gather" /\ pc' = "loop")
              => Cardinality(completed') > Cardinality(completed) ]_vars

\* a run that needed as many frontiers as the plan has tasks
C8_Witness ==
    /\ pc = "done"
    /\ Len(plan.tasks) = MaxTasks
    /\ Len(frontiers) = Len(plan.tasks)

\* C9: whenever a frontier has been collected the executed tasks lie in the
\* least closed set, and at the end they are exactly the least closed set,
\* which are the tasks that are not blocked by a cycle or an absent
\* prerequisite; the loop is left by the stall break, with one result per
\* task of that set, exactly when the set is not the whole task set.
C9_LeastClosedSet ==
    pc \in {"loop", "done"} =>
        LET least == LeastClosed(plan)
        IN  /\ pc = "loop" => ExecutedTasks \subseteq least
            /\ pc = "done" =>
                  /\ ExecutedTasks = least
                  /\ least = TaskIds(plan) \ Blocked(plan)
                  /\ Len(returned.results) = Cardinality(least)
                  /\ (exitAt = "break") <=> (least # TaskIds(plan))

\* a stalled run with partial results: one task executed, one task on a
\* cycle and one task with an absent prerequisite, or depending on such a task
C9_Witness ==
    /\ pc = "done"
    /\ exitAt = "break"
    /\ Len(returned.results) = 1
    /\ \E t \in TaskIds(plan) : OnCycle(plan, t)
    /\ \E t \in TaskIds(plan) : ~ OnCycle(plan, t) /\ t \in Blocked(plan)

\* the plan A, B (dep A), C (dep A)
IsDiamond(p) ==
    /\ Len(p.tasks) = 3
    /\ DepsOf(p, 1) = {}
    /\ DepsOf(p, 2) = {1}
    /\ DepsOf(p, 3) = {1}

\* all(r.success for r in results) over the returned list
AggregateSuccess == AllSuccess(returned.results)

C11_ImmediateStall ==
    (pc = "done" /\ Len(plan.tasks) >= 1
        /\ \A t \in TaskIds(plan) : DepsOf(plan, t) # {}) =>
        /\ frontiers = << >>
        /\ returned.results = << >>
        /\ "stall" \in DOMAIN returned
        /\ returned.stall = TRUE

\* the part of C11 that the code keeps: nothing runs and nothing is returned
C11_NothingRuns ==
    (pc = "done" /\ Len(plan.tasks) >= 1
        /\ \A t \in TaskIds(plan) : DepsOf(plan, t) # {}) =>
        /\ frontiers = << >>
        /\ returned.results = << >>
        /\ exitAt = "break"

\* run has ended: by a return or by an exception that reached the caller
FbEnded == fb_pc \in {"returned", "raised"}

\* the result object that run returned
FbReturnedResult == objects[fb_outcome.ref]

\* the worker's k-th call of a run returns success=false with recommendations
FailsWithRecommendations(k) ==
    /\ fb_env.worker[k].kind = "return"
    /\ ~ fb_env.worker[k].value.success
    /\ fb_env.worker[k].value.recommendations # << >>

\* the worker's k-th call of a run returns success=true
Succeeds(k) == fb_env.worker[k].kind = "return" /\ fb_env.worker[k].value.success

RepairNeverFaults == \A k \in 1..max_iterations : fb_env.repair[k].kind = "return"

\* entries that the current run has appended to the history
AppendedByRun == Len(iteration_history) - fb_trace.first

\* C12: with max_iterations >= 1, a worker that always returns success=false
\* with recommendations and a repair step that never faults, run returns
\* after exactly max_iterations worker calls, the returned result ends with
\* the budget marker, and the run has appended max_iterations history
\* entries (the whole history, on a fresh instance).
C12_BudgetExhausted ==
    (FbEnded /\ max_iterations >= 1 /\ RepairNeverFaults
        /\ \A k \in 1..max_iterations : FailsWithRecommendations(k)) =>
        /\ fb_pc = "returned"
        /\ fb_trace.worker_calls = max_iterations
        /\ FbReturnedResult.success = FALSE
        /\ FbReturnedResult.errors[Len(FbReturnedResult.errors)]
              = Text("Max iterations reached", Str(max_iterations))
        /\ AppendedByRun = max_iterations
        /\ fb_trace.run = 1 => Len(iteration_history) = max_iterations

\* the first run of a loop with the largest budget ended exhausted
C12_Witness ==
    /\ fb_pc = "returned"
    /\ fb_trace.run = 1
    /\ max_iterations = MaxBudget
    /\ RepairNeverFaults
    /\ \A k \in 1..max_iterations : FailsWithRecommendations(k)
    /\ fb_trace.exit = "exhausted"
    /\ Len(iteration_history) = MaxBudget

\* the worker's k-th call of a run returns success=false
ReturnsFailure(k) == fb_env.worker[k].kind = "return" /\ ~ fb_env.worker[k].value.success

\* C13 as stated: with budget >= 2, a worker whose first invocation fails and
\* whose second invocation succeeds makes the run end after the second
\* invocation, with a history of length 2 and a returned success=true.
C13_SecondCallEndsRun ==
    (FbEnded /\ fb_trace.run = 1 /\ max_iterations >= 2
        /\ ReturnsFailure(1) /\ Succeeds(2)) =>
        /\ fb_pc = "returned"
        /\ fb_trace.worker_calls = 2
        /\ Len(iteration_history) = 2
        /\ FbReturnedResult.success

\* C13 amended: the same, when the first invocation returns success=false
\* with recommendations and the repair step returns the next task; the second
\* invocation is then made on the repaired task and its result is returned.
C13_SecondCallEndsRunAfterRepair ==
    (FbEnded /\ max_iterations >= 2
        /\ FailsWithRecommendations(1) /\ fb_env.repair[1].kind = "return"
        /\ Succeeds(2)) =>
        /\ fb_pc = "returned"
        /\ fb_trace.exit = "success"
        /\ fb_trace.worker_calls = 2
        /\ fb_trace.repair_calls = 1
        /\ AppendedByRun = 2
        /\ fb_trace.run = 1 => Len(iteration_history) = 2
        /\ iteration_history[Len(iteration_history)].task_id = RepairedTask(1)
        /\ FbReturnedResult = fb_env.worker[2].value
        /\ FbReturnedResult.success

\* a first run ended with the success of the second call, budget left over
C13_Witness ==
    /\ fb_pc = "returned"
    /\ fb_trace.run = 1
    /\ max_iterations = MaxBudget
    /\ FailsWithRecommendations(1) /\ fb_env.repair[1].kind = "return"
    /\ Succeeds(2)
    /\ fb_trace.worker_calls = 2
    /\ Len(iteration_history) = 2
    /\ FbReturnedResult.success

\* the last call of fix_callback raised
RepairRaised ==
    /\ fb_trace.repair_calls >= 1
    /\ fb_env.repair[fb_trace.repair_calls].kind = "raise"

\* C14: when fix_callback raises, run returns at once: the worker is not
\* called again, the result of the last worker call gets the fault text
\* appended to its errors and is the value returned, and nothing is raised
\* to the caller.
C14_RepairFaultReturnsAnnotated ==
    RepairRaised =>
        /\ fb_pc = "returned"
        /\ fb_outcome.kind = "return"
        /\ fb_trace.worker_calls = fb_trace.repair_calls
        /\ AppendedByRun = fb_trace.worker_calls
        /\ fb_outcome.ref = iteration_history[Len(iteration_history)].result
        /\ FbReturnedResult.errors =
              Append(fb_env.worker[fb_trace.worker_calls].value.errors,
                     Text("Fix callback failed: ",
                          fb_env.repair[fb_trace.repair_calls].value.text))
        /\ FbReturnedResult.success = FALSE

\* fix_callback raised in the second iteration of a run with budget left
C14_Witness ==
    /\ RepairRaised
    /\ fb_trace.repair_calls = 2
    /\ max_iterations = MaxBudget
    /\ fb_trace.exit = "fix_failed"
    /\ fb_pc = "returned"

\* the worker's k-th call of a run returns success=false without recommendations
FailsWithoutRecommendations(k) ==
    /\ ReturnsFailure(k)
    /\ fb_env.worker[k].value.recommendations = << >>

\* the run returned the object that the last worker call produced, as produced
ReturnedLastResultUntouched ==
    /\ fb_pc = "returned"
    /\ fb_outcome.ref = iteration_history[Len(iteration_history)].result
    /\ FbReturnedResult = fb_env.worker[fb_trace.worker_calls].value

\* C15: a worker call that returns success=true is the last call of its run:
\* run has returned that very result, unannotated, and fix_callback was
\* called only for the calls before it.
C15_SuccessReturnsAtOnce ==
    \A k \in 1..fb_trace.worker_calls :
        Succeeds(k) =>
            /\ k = fb_trace.worker_calls
            /\ fb_trace.repair_calls = k - 1
            /\ fb_trace.exit = "success"
            /\ ReturnedLastResultUntouched
            /\ FbReturnedResult.errors = << >>

\* the second call succeeded with one iteration of budget unused
C15_Witness ==
    /\ fb_trace.worker_calls = 2
    /\ Succeeds(2)
    /\ max_iterations = MaxBudget
    /\ fb_pc = "returned"
    /\ fb_trace.repair_calls = 1

\* C16: a worker call that returns success=false with no recommendations is
\* the last call of its run, whatever budget remains: run has returned that
\* result and fix_callback was called only for the calls before it.
C16_NothingActionableReturnsAtOnce ==
    \A k \in 1..fb_trace.worker_calls :
        FailsWithoutRecommendations(k) =>
            /\ k = fb_trace.worker_calls
            /\ fb_trace.repair_calls = k - 1
            /\ fb_trace.exit = "no_recommendations"
            /\ ReturnedLastResultUntouched
            /\ FbReturnedResult.success = FALSE

\* the first call had nothing actionable and two iterations of budget remained
C16_Witness ==
    /\ fb_trace.worker_calls = 1
    /\ FailsWithoutRecommendations(1)
    /\ max_iterations = MaxBudget
    /\ fb_pc = "returned"
    /\ fb_trace.repair_calls = 0
    /\ Len(iteration_history) = 1

\* the terminal states, read off the returned result
Succeeded(r) == r.success

Exhausted(r) ==
    /\ ~ r.success
    /\ \E k \in 1..Len(r.errors) : r.errors[k].text = "Max iterations reached"

Aborted(r) ==
    /\ ~ r.success
    /\ \E k \in 1..Len(r.errors) : r.errors[k].text = "Fix callback failed: "

NothingActionable(r) ==
    /\ ~ r.success
    /\ r.recommendations = << >>
    /\ ~ \E k \in 1..Len(r.errors) :
            r.errors[k].text \in {"Max iterations reached", "Fix callback failed: "}

TerminalStates(r) ==
    {name \in {"SUCCEEDED", "EXHAUSTED", "ABORTED"} :
        \/ name = "SUCCEEDED" /\ Succeeded(r)
        \/ name = "EXHAUSTED" /\ Exhausted(r)
        \/ name = "ABORTED" /\ Aborted(r)}

\* C17 as stated: every return of run is in exactly one of SUCCEEDED,
\* EXHAUSTED and ABORTED.
C17_ThreeTerminalStates ==
    fb_pc = "returned" => Cardinality(TerminalStates(FbReturnedResult)) = 1

\* one iteration at a time: iteration i calls the worker, then the repair step
StrictlySequential ==
    /\ fb_pc = "process" =>
          /\ fb_trace.worker_calls = iteration
          /\ fb_trace.repair_calls = iteration
    /\ fb_pc = "fix" =>
          /\ fb_trace.worker_calls = iteration + 1
          /\ fb_trace.repair_calls = iteration

\* C17 amended: every return of run is in exactly one of four terminal
\* states, the three named ones or a failed result without recommendations
\* and without annotation; after a return the only step is a new call of
\* run; iterations follow one another, each worker call after the repair
\* step of the iteration before.
C17_FourTerminalStates ==
    [][/\ fb_pc' = "returned" =>
             Cardinality(TerminalStates(FbReturnedResult')
                 \cup (IF NothingActionable(FbReturnedResult')
                       THEN {"NOTHING_ACTIONABLE"} ELSE {})) = 1
       /\ fb_pc = "returned" =>
             /\ fb_trace'.run = fb_trace.run + 1
             /\ fb_trace'.worker_calls = 0
             /\ UNCHANGED << iteration_history, objects >>
       /\ StrictlySequential'
       /\ fb_trace'.run = fb_trace.run =>
             fb_trace'.worker_calls + fb_trace'.repair_calls
                = fb_trace.worker_calls + fb_trace.repair_calls + 1]_vars

\* a run returned a failed result that carries no annotation
C17_Witness ==
    /\ fb_pc = "returned"
    /\ NothingActionable(FbReturnedResult)
    /\ TerminalStates(FbReturnedResult) = {}
    /\ fb_trace.worker_calls = 2

\* C18: the history only grows, and what get_history() shows of an entry
\* already appended, its result included, never changes afterwards.
C18_HistoryAppendOnly ==
    [][/\ Len(iteration_history') >= Len(iteration_history)
       /\ \A k \in 1..Len(iteration_history) :
             HistoryView(iteration_history', objects')[k]
                = HistoryView(iteration_history, objects)[k]]_vars

\* every worker call that returned is in the history before run goes on:
\* one entry per call, carrying the task of the call
C18_OneEntryPerCall ==
    /\ AppendedByRun =
          Cardinality({k \in 1..fb_trace.worker_calls : fb_env.worker[k].kind = "return"})
    /\ \A k \in 1..AppendedByRun :
          /\ iteration_history[fb_trace.first + k].iteration = k - 1
          /\ iteration_history[fb_trace.first + k].task_id
                = (IF k = 1 THEN InitialTask ELSE RepairedTask(k - 1))

\* C19: a run in which the worker was called ends with a returned result,
\* never with an exception at the caller.
C19_WorkerFaultRecovered ==
    (FbEnded /\ fb_trace.worker_calls >= 1) => fb_pc = "returned"

\* C20: once execute_plan has returned, the aggregate success flag is false
\* exactly when a returned result has success=false, that is, when some
\* executed task did not end COMPLETED.
C20_AggregateIsConjunction ==
    pc = "done" =>
        /\ (AggregateSuccess = FALSE) <=>
              (\E k \in 1..Len(returned.results) : returned.results[k].success = FALSE)
        /\ AggregateSuccess <=> (\A t \in ExecutedTasks : status[t] = COMPLETED)

\* three results returned, a single failure among them, aggregate false
C20_Witness ==
    /\ pc = "done"
    /\ Len(returned.results) = 3
    /\ Cardinality({k \in 1..3 : ~ returned.results[k].success}) = 1
    /\ AggregateSuccess = FALSE

\* the list-valued fields that execute_command concatenates
ListFields == {"errors", "warnings", "recommendations"}

\* the result that the gather in progress holds for task t of next_tasks
GatheredResult(t) ==
    GatherResult(coro[CHOOSE i \in 1..Len(next_tasks) : next_tasks[i] = t].result)

\* number of entries that the first k results hold in field f
RECURSIVE EntriesBefore(_, _, _)
EntriesBefore(rs, k, f) ==
    IF k = 0 THEN 0 ELSE EntriesBefore(rs, k - 1, f) + Len(rs[k][f])

RegistrationsOf(ttype, n) == { k \in 1..n : registered[k].task_type = ttype }

\* C22: a route call gives the agent of the latest register_agent call for
\* the task's type, and for a type never registered it returns an absent
\* signal and does not raise.
C22_LookupNeverRaises ==
    \A c \in 1..Len(routed) :
        LET calls == RegistrationsOf(routed[c].task_type, routed[c].registrations)
        IN  /\ routed[c].outcome.kind = "return"
            /\ calls # {} =>
                  routed[c].outcome.value = registered[SetMax(calls)].agent

\* the part of C22 that holds: the registry maps each registered type to the
\* agent of the latest call for it, and a route call for a registered type
\* returns that agent
C22_LastWriteWins ==
    /\ DOMAIN agent_registry = { registered[k].task_type : k \in 1..Len(registered) }
    /\ \A ttype \in DOMAIN agent_registry :
          agent_registry[ttype] =
              registered[SetMax(RegistrationsOf(ttype, Len(registered)))].agent
    /\ \A c \in 1..Len(routed) :
          LET calls == RegistrationsOf(routed[c].task_type, routed[c].registrations)
          IN  calls # {} =>
                 routed[c].outcome = [kind |-> "return",
                                      value |-> registered[SetMax(calls)].agent]

\* the ids of the sub-tasks of a plan made by create_execution_plan
SubTaskIds(p) == { p.tasks[i].task_id : i \in 1..Len(p.tasks) }

\* the task list and the dependency mapping of such a plan, as ids
PlanGraph(p) ==
    [tasks |-> [i \in 1..Len(p.tasks) |-> p.tasks[i].task_id],
     dependencies |-> [id \in DOMAIN p.dependencies |-> Range(p.dependencies[id])]]

\* C23: every plan that create_execution_plan has returned has pairwise
\* distinct task ids, a dependency mapping whose keys and prerequisite ids
\* are all tasks of the plan, no task that depends on itself, and no cycle.
C23_PlanInvariants ==
    \A k \in 1..Len(plans) :
        LET p == plans[k].plan
        IN  /\ Cardinality(SubTaskIds(p)) = Len(p.tasks)
            /\ DOMAIN p.dependencies \subseteq SubTaskIds(p)
            /\ \A id \in DOMAIN p.dependencies :
                  /\ Range(p.dependencies[id]) \subseteq SubTaskIds(p)
                  /\ id \notin Range(p.dependencies[id])
            /\ ~ HasCycle(PlanGraph(p))

\* a four-step plan and a two-step plan have been made
C23_Witness ==
    /\ Len(plans) = 2
    /\ Len(plans[1].plan.tasks) = 4
    /\ Len(plans[2].plan.tasks) = 2
    /\ Cardinality(DOMAIN plans[1].plan.dependencies) = 4

\* the number of sub-tasks that each type's template has
ChainLength(ttype) ==
    CASE ttype = "timing_analysis" -> 4
      [] ttype = "rtl_modification" -> 3
      [] ttype = "script_tuning" -> 2
      [] ttype = "verification" -> 1
      [] ttype = "power_optimization" -> 1
      [] OTHER -> 2

\* C24: every plan is a chain of the length of its type's template: the first
\* sub-task has an empty prerequisite list and every later one has exactly
\* its predecessor; a type without template gets identify_issue -> suggest_fix.
C24_LinearChain ==
    \A k \in 1..Len(plans) :
        LET p == plans[k].plan
            root == plans[k].task
            n == Len(p.tasks)
        IN  /\ n = ChainLength(root.task_type)
            /\ n \in 1..4
            /\ DOMAIN p.dependencies = SubTaskIds(p)
            /\ p.dependencies[p.tasks[1].task_id] = << >>
            /\ \A i \in 2..n :
                  p.dependencies[p.tasks[i].task_id] = << p.tasks[i - 1].task_id >>
            /\ root.task_type \notin TaskTypeEnum \ {"debug"} =>
                  [i \in 1..n |-> p.tasks[i].task_id]
                     = << root.task_id \o Suffix_identify_issue,
                          root.task_id \o Suffix_suggest_fix >>

\* a root task whose type is no member of TaskType got the debug chain, and a
\* script-tuning root its two-step chain
C24_Witness ==
    /\ Len(plans) = 2
    /\ plans[1].task.task_type = "other"
    /\ Len(plans[1].plan.tasks) = 2
    /\ plans[2].task.task_type = "script_tuning"
    /\ plans[2].plan.dependencies[plans[2].plan.tasks[2].task_id] # << >>

\* a is a proper prefix of b
IsProperPrefix(a, b) == Len(a) < Len(b) /\ SubSeq(b, 1, Len(a)) = a

\* C25: the plans made for two root tasks with different ids share no
\* sub-task id.
C25_DisjointSubTaskIds ==
    \A j, k \in 1..Len(plans) :
        plans[j].task.task_id # plans[k].task.task_id =>
            SubTaskIds(plans[j].plan) \cap SubTaskIds(plans[k].plan) = {}

\* plans were made for two roots of the same type and text, the id of one
\* being the id of the other extended by the first part of a suffix
C25_Witness ==
    /\ Len(plans) = 2
    /\ IsProperPrefix(plans[1].task.task_id, plans[2].task.task_id)
    /\ plans[1].task.task_type = "rtl_modification"
    /\ plans[2].task.task_type = "rtl_modification"
    /\ plans[1].task.description = plans[2].task.description

\* what two plans of one root task have in common: the ordered sub-task ids,
\* the sub-task types and the dependency mapping
Shape(p) ==
    [ids |-> [i \in 1..Len(p.tasks) |-> p.tasks[i].task_id],
     types |-> [i \in 1..Len(p.tasks) |-> p.tasks[i].task_type],
     dependencies |-> p.dependencies]

PriorityOrder ==
    << "timing_analysis", "power_optimization", "rtl_modification", "script_tuning",
       "verification", "debug" >>

SetMin(s) == CHOOSE x \in s : \A y \in s : x <= y

\* C27: the rules are in the priority order; every command gets a Task whose
\* type is that of the earliest rule whose pattern matches the text, or
\* verification, the default, when no rule matches; the Task carries the
\* text and a fresh "task_" id.
C27_FirstMatchingRule ==
    /\ \A k \in 1..Len(PriorityOrder) : task_patterns[k].task_type = PriorityOrder[k]
    /\ Len(task_patterns) = Len(PriorityOrder)
    /\ \A c \in 1..Len(parsed) :
          LET command == parsed[c].command
              task == parsed[c].task
              matching == { k \in 1..Len(task_patterns) : Matches(k, command) }
          IN  /\ task.task_type =
                    (IF matching = {} THEN "verification"
                     ELSE PriorityOrder[SetMin(matching)])
              /\ task.description = command
              /\ task.status = PENDING
              /\ SubSeq(task.task_id, 1, 5) = << "t", "a", "s", "k", "_" >>

\* "FIX timing" matches the rtl-modification rule (case ignored) and the
\* timing rule, and got the type of the earlier rule
C27_Witness ==
    /\ Len(parsed) = 1
    /\ parsed[1].command =
          << "F", "I", "X", " ", "t", "i", "m", "i", "n", "g" >>
    /\ Matches(1, parsed[1].command) /\ Matches(3, parsed[1].command)
    /\ parsed[1].task.task_type = "timing_analysis"

\* C28: no step of execute_plan changes the plan (task list, dependency
\* mapping, plan id, metadata); the status of a task changes only when the
\* frontier that holds the task is collected, so a task that was never
\* executed keeps the status it had.
C28_PlanReadOnly ==
    [][/\ plan' = plan
       /\ DOMAIN status' = DOMAIN status
       /\ \A t \in DOMAIN status :
             status'[t] # status[t] =>
                /\ pc = "gather" /\ pc' = "loop"
                /\ t \in Range(next_tasks)
       /\ pc' = "done" =>
             \A t \in TaskIds(plan) \ Range(executed') : status'[t] = PENDING]_vars

\* a stalled run has returned: one task was executed and has its status, two
\* tasks never ran and are still pending
C28_Witness ==
    /\ pc = "done"
    /\ exitAt = "break"
    /\ Len(plan.tasks) = 3
    /\ Cardinality({ t \in TaskIds(plan) : status[t] = PENDING }) = 2
    /\ Cardinality({ t \in TaskIds(plan) : status[t] \in {COMPLETED, FAILED} }) = 1

\* C29: when execute_plan has returned, each executed task is COMPLETED if
\* its result has success=true and FAILED otherwise; a status is written
\* once, to a pending task, in the step that collects the finished frontier
\* of the task.
C29_StatusFollowsResult ==
    [][/\ pc' = "done" =>
             \A k \in 1..Len(returned'.results) :
                 status'[executed'[k]] =
                     (IF returned'.results[k].success THEN COMPLETED ELSE FAILED)
       /\ \A t \in DOMAIN status :
             status'[t] # status[t] =>
                /\ status[t] = PENDING
                /\ pc = "gather" /\ GatherReady(coro)
                /\ t \in Range(next_tasks)]_vars

\* a run has returned with a task that had no worker, a task whose worker
\* raised, both FAILED, and a task whose worker succeeded, COMPLETED
C29_Witness ==
    /\ pc = "done"
    /\ Len(returned.results) = 3
    /\ \E i, j, k \in 1..3 :
          /\ returned.results[i].errors = << NoCapability("debug") >>
          /\ status[executed[i]] = FAILED
          /\ returned.results[j].errors = << Text("boom", "") >>
          /\ status[executed[j]] = FAILED
          /\ returned.results[k].success
          /\ status[executed[k]] = COMPLETED

\* C30: a Task turned into its record and back is equal to the original,
\* field for field, type, status, timestamp and sub-tasks included.
C30_RoundTrip ==
    \A k \in 1..Len(stored) : stored[k].restored = stored[k].original

\* what the round trip does keep: the plain fields, and the values of the
\* Enum members and of the timestamp as text
C30_ValuesKept ==
    \A k \in 1..Len(stored) :
        LET a == stored[k].original
            b == stored[k].restored
        IN  /\ b.task_id = a.task_id /\ b.description = a.description
            /\ b.priority = a.priority /\ b.context = a.context
            /\ b.task_type.value = a.task_type.value
            /\ b.status.value = a.status.value
            /\ b.created_at.value = a.created_at.value
            /\ Len(b.sub_tasks) = Len(a.sub_tasks)

\* C31: in one execute_plan run every task is executed at most once and has
\* at most one result: a frontier handed to gather holds no task of the
\* completed set, no task twice and no task of an earlier frontier, and
\* whenever execute_plan is at its loop (or has returned) the number of
\* results equals the size of the completed set.
C31_AtMostOnce ==
    [][/\ frontiers' # frontiers =>
             /\ Range(next_tasks') \cap completed = {}
             /\ Cardinality(Range(next_tasks')) = Len(next_tasks')
             /\ \A r \in 1..Len(frontiers) :
                   Range(frontiers[r]) \cap Range(next_tasks') = {}
       /\ pc' \in {"loop", "done"} =>
             /\ Len(results') = Cardinality(completed')
             /\ Range(executed') = completed'
             /\ \A j, k \in 1..Len(executed') :
                   executed'[j] = executed'[k] => j = k]_vars

\* a second frontier was collected after a first one in which a task failed:
\* three results for three completed tasks
C31_Witness ==
    /\ pc = "loop"
    /\ Len(frontiers) = 2
    /\ Len(results) = 3
    /\ Cardinality(completed) = 3
    /\ ~ results[1].success

\* the result that execute_plan records for a task, given what route or the
\* task's own worker did
ResultOfOutcome(o) == IF o.kind = "raise" THEN ExceptResult(o.value) ELSE o.value

\* C32: the returned list does not depend on when the workers finish: each
\* frontier is get_next_tasks of the plan and the tasks executed before it,
\* in the order of the plan's task list, and collecting it appends, for its
\* tasks in that order, the result of each task's own outcome, whatever the
\* order in which the workers finished.
C32_TimingIndependent ==
    [][/\ frontiers' # frontiers =>
             /\ next_tasks' = get_next_tasks(plan, Range(executed))
             /\ \A i, j \in 1..Len(next_tasks') : i < j => next_tasks'[i] < next_tasks'[j]
       /\ (pc = "gather" /\ pc' = "loop") =>
             /\ executed' = executed \o next_tasks
             /\ results' = results \o [i \in 1..Len(next_tasks) |->
                                          ResultOfOutcome(coro[i].worker)]
       /\ pc' = "done" => returned'.results = results]_vars

\* the two workers of a second frontier have both finished, the one listed
\* later first, with different outcomes, and the frontier is about to be collected
C32_Witness ==
    /\ pc = "gather"
    /\ GatherReady(coro)
    /\ Len(frontiers) = 2
    /\ Len(next_tasks) = 2
    /\ finished = << next_tasks[2], next_tasks[1] >>
    /\ coro[1].worker.kind = "raise"
    /\ coro[2].worker.kind = "return"

C34_ZeroBudgetReturns ==
    (FbEnded /\ max_iterations = 0) =>
        /\ fb_trace.worker_calls = 0
        /\ fb_trace.repair_calls = 0
        /\ AppendedByRun = 0
        /\ fb_outcome.kind = "return"

\* the part of C34 that the code keeps: nothing is called and the history stays
C34_NothingCalled ==
    (FbEnded /\ max_iterations = 0) =>
        /\ fb_trace.worker_calls = 0
        /\ fb_trace.repair_calls = 0
        /\ iteration_history = << >>
        /\ fb_outcome = [kind |-> "raise", ref |-> 0,
                         exception |-> Text("UnboundLocalError", "result")]

\* the task ids of the history entries that the current run has appended
ExecutedByRun ==
    { iteration_history[k].task_id : k \in (fb_trace.first + 1)..Len(iteration_history) }

\* C35: when run has ended, the repair step was called once for every worker
\* call of the run that returned a failure with recommendations, the last
\* permitted one included; a run that ended budget-exhausted has called the
\* repair step exactly max_iterations times and the task that the last call
\* returned was not executed; a repair fault in the last permitted iteration
\* ends the run with the repair-fault text as last error and without the
\* exhaustion marker.
C35_RepairAfterEveryFailure ==
    FbEnded =>
        /\ fb_trace.repair_calls =
              Cardinality({ k \in 1..fb_trace.worker_calls : FailsWithRecommendations(k) })
        /\ fb_trace.exit = "exhausted" =>
              /\ fb_trace.repair_calls = max_iterations
              /\ fb_trace.worker_calls = max_iterations
              /\ current_task = RepairedTask(max_iterations)
              /\ RepairedTask(max_iterations) \notin ExecutedByRun
        /\ (fb_trace.repair_calls = max_iterations /\ max_iterations >= 1
              /\ fb_env.repair[max_iterations].kind = "raise") =>
              /\ fb_pc = "returned"
              /\ fb_trace.exit = "fix_failed"
              /\ FbReturnedResult.errors[Len(FbReturnedResult.errors)]
                    = FixFailedText(fb_env.repair[max_iterations].value)
              /\ MaxIterationsText(max_iterations) \notin Range(FbReturnedResult.errors)

\* a run with the largest budget ended exhausted: the repair step was called
\* after the last permitted execution too and its task was not executed
C35_Witness ==
    /\ fb_pc = "returned"
    /\ fb_trace.exit = "exhausted"
    /\ max_iterations = MaxBudget
    /\ fb_trace.repair_calls = MaxBudget
    /\ current_task = RepairedTask(MaxBudget)
    /\ ExecutedByRun = { InitialTask } \cup { RepairedTask(k) : k \in 1..(MaxBudget - 1) }

\* C36: the first task that a run hands to the worker is the initial task
\* and each later one is the task that the repair step returned after the
\* execution before it; the entry that the j-th execution of a run appends to
\* the history carries iteration j-1 and the id of the task of that execution.
C36_TaskChain ==
    /\ \A k \in 1..Len(fb_trace.processed) :
          fb_trace.processed[k] = (IF k = 1 THEN InitialTask ELSE RepairedTask(k - 1))
    /\ Len(fb_trace.processed) = fb_trace.worker_calls
    /\ \A j \in 1..AppendedByRun :
          /\ iteration_history[fb_trace.first + j].iteration = j - 1
          /\ iteration_history[fb_trace.first + j].task_id = fb_trace.processed[j]

\* a second run on the same loop has executed the initial task and then the
\* tasks of two repairs, and its three history entries carry their ids
C36_Witness ==
    /\ fb_trace.run = 2
    /\ fb_trace.processed = << InitialTask, RepairedTask(1), RepairedTask(2) >>
    /\ AppendedByRun = 3
    /\ fb_trace.first > 0
    /\ iteration_history[Len(iteration_history)].task_id = RepairedTask(2)

\* C37: the history of a FeedbackLoop is as long as the number of worker
\* executions of all the runs made on it, is max_iterations long after an
\* exhausted first run, and is never longer than max_iterations times the
\* number of runs.
C37_HistoryCountsExecutions ==
    /\ Len(iteration_history) = fb_trace.all_worker_calls
    /\ (fb_trace.exit = "exhausted" /\ fb_trace.run = 1) =>
          Len(iteration_history) = max_iterations
    /\ Len(iteration_history) <= max_iterations * fb_trace.run

\* the part of C37 that the code keeps: a new call of run leaves the history
\* as it is, the history grows by one entry with each worker call that
\* returns and by nothing else, and it is never longer than max_iterations
\* times the number of runs
C37_HistoryAccumulates ==
    [][/\ fb_trace'.run # fb_trace.run => iteration_history' = iteration_history
       /\ Len(iteration_history') - Len(iteration_history) =
             (IF /\ fb_trace'.worker_calls = fb_trace.worker_calls + 1
                 /\ fb_env.worker[fb_trace'.worker_calls].kind = "return"
              THEN 1 ELSE 0)
       /\ Len(iteration_history') <= max_iterations * fb_trace'.run
       /\ (fb_trace'.exit = "exhausted" /\ fb_trace'.run = 2) =>
             Len(iteration_history') = 2 * max_iterations]_vars

\* the tasks that were in no frontier handed to gather
NeverInFrontier == { t \in TaskIds(plan) : FrontierOf(t) = 0 }

\* C38: execute_plan writes the status of executed tasks only: a step that
\* changes a status sets it to COMPLETED or FAILED, for a task of the frontier
\* being collected; after every step no task is IN_PROGRESS or NEEDS_REVIEW,
\* the tasks of a frontier still running and the tasks that were in no
\* frontier are PENDING, and when the run has stalled the tasks that were in
\* no frontier are exactly the tasks without result.
C38_UnexecutedKeepStatus ==
    [][/\ \A t \in TaskIds(plan) :
             /\ status'[t] \notin {IN_PROGRESS, NEEDS_REVIEW}
             /\ status'[t] # status[t] =>
                   /\ status'[t] \in {COMPLETED, FAILED}
                   /\ t \in Range(executed') \ Range(executed)
       /\ \A t \in NeverInFrontier' : status'[t] = PENDING
       /\ pc' = "gather" => \A t \in Range(next_tasks') : status'[t] = PENDING
       /\ (pc' = "done" /\ exitAt' = "break") =>
             /\ NeverInFrontier' = TaskIds(plan) \ Range(executed')
             /\ NeverInFrontier' # {}]_vars

\* a run stalled after two frontiers: one task failed, one completed, and
\* the third, which was in no frontier, is still pending
C38_Witness ==
    /\ pc = "done"
    /\ exitAt = "break"
    /\ Len(frontiers) = 2
    /\ \E t, u \in ExecutedTasks : status[t] = FAILED /\ status[u] = COMPLETED
    /\ \E t \in NeverInFrontier : status[t] = PENDING

\* the tasks of the plan that have no entry in plan.dependencies
WithoutEntry == TaskIds(plan) \ DOMAIN plan.dependencies

\* C39: a task without entry in the dependency mapping is ready with an
\* empty completed set; it is in the first frontier handed to gather and in
\* no other, it is completed once that frontier is collected, and when
\* execute_plan has returned it has exactly one result, whatever the other
\* tasks of the plan are and do.
C39_NoEntryMeansReady ==
    [][\A t \in WithoutEntry :
          /\ t \in Range(get_next_tasks(plan, {}))
          /\ frontiers' # << >> =>
                /\ t \in Range(frontiers'[1])
                /\ \A r \in 2..Len(frontiers') : t \notin Range(frontiers'[r])
          /\ (pc' = "loop" /\ frontiers' # << >>) => t \in completed'
          /\ pc' = "done" =>
                /\ frontiers' # << >>
                /\ Cardinality({ k \in 1..Len(executed') : executed'[k] = t }) = 1
                /\ status'[t] # PENDING]_vars

\* a stalled run has returned: the one task without entry in the dependency
\* mapping was executed in the first frontier, the two other tasks never ran
C39_Witness ==
    /\ pc = "done"
    /\ exitAt = "break"
    /\ Len(plan.tasks) = 3
    /\ Cardinality(WithoutEntry) = 1
    /\ WithoutEntry = ExecutedTasks
    /\ \A t \in WithoutEntry : FrontierOf(t) = 1 /\ status[t] = COMPLETED

\* the jobs whose executor.execute call is in progress
InProgress == { i \in 1..Len(batch_tasks) : batch_tasks[i].state = "executing" }

\* execute_batch has returned one record per job, in job order: the record
\* that execute returned, or a success=false record with the text of the
\* exception that it raised
OneRecordPerJob ==
    /\ batch_pc = "returned"
    /\ Len(processed_results) = Len(jobs)
    /\ \A i \in 1..Len(jobs) :
          /\ batch_tasks[i].state = "finished"
          /\ jobs[i].kind = "return" => processed_results[i] = jobs[i].value
          /\ jobs[i].kind = "raise" =>
                processed_results[i] = [success |-> FALSE, error |-> jobs[i].value]

\* C40 as stated: at most max_concurrent execute calls are in progress at
\* any time, and every batch handed to gather ends with every job executed
\* and one record per job returned, whatever max_concurrent is.
C40_BoundedAndComplete ==
    /\ [](Cardinality(InProgress) <= max_concurrent)
    /\ (batch_pc = "gather") ~> OneRecordPerJob

\* C40 amended: at most max_concurrent execute calls are in progress at any
\* time (the semaphore counter is max_concurrent less that number); when
\* max_concurrent >= 1 or the batch is empty, every job is eventually
\* executed and one record per job is returned in job order, a raised fault
\* as a success=false record; with max_concurrent = 0 no job is ever executed.
C40_BoundedAndCompleteWithSlots ==
    /\ [](/\ Cardinality(InProgress) <= max_concurrent
          /\ semaphore = max_concurrent - Cardinality(InProgress)
          /\ batch_pc = "returned" => OneRecordPerJob
          /\ max_concurrent = 0 =>
                \A i \in 1..Len(batch_tasks) :
                    batch_tasks[i].state \in {"created", "waiting"})
    /\ (batch_pc = "gather" /\ (max_concurrent >= 1 \/ jobs = << >>)) ~> OneRecordPerJob

\* with one slot and three jobs: the job listed second ran first and raised,
\* the job listed last is inside execute, the job listed first is waiting
C40_Witness ==
    /\ batch_pc = "gather"
    /\ max_concurrent = 1
    /\ Len(jobs) = 3
    /\ batch_tasks[1].state = "waiting"
    /\ batch_tasks[2].state = "finished" /\ jobs[2].kind = "raise"
    /\ batch_tasks[3].state = "executing"
    /\ semaphore = 0

\* a batch of three jobs has returned: the first raised, the others returned
C40_ReturnedWitness ==
    /\ batch_pc = "returned"
    /\ max_concurrent = MaxConcurrent
    /\ Len(processed_results) = 3
    /\ processed_results[1] = [success |-> FALSE, error |-> Text("Unknown tool: ", "vcs")]
    /\ processed_results[2].success
    /\ ~ processed_results[3].success
====
